---- MODULE Spec2Model ----
(* Admin console of the e-commerce backend: the views of src/ as state      *)
(* machines. One view is mounted at a time (route); every view owns its     *)
(* state, talks to the server through asynchronous requests (a request is   *)
(* sent, answered by the server, and its answer delivered to the handler    *)
(* that awaits it), and the server is a black box that may refuse any       *)
(* request.                                                                 *)
EXTENDS Integers, Sequences, FiniteSets, Bags, TLC

\* ------------------------------------------------------------------ bounds
\* Mutating requests (add, edit, delete) the user issues while a view is mounted.
MaxMut == 1
\* The same, where two requests are to overlap.
TwoMut == MaxMut + 1
\* Products the server holds when the Products view mounts.
MaxProd == 2
\* Orders the server holds when the Orders view mounts.
MaxOrd == 2
\* Inventory records the server can hold (two pages of the table need eleven).
MaxInv == 11

VARIABLES
    route,                  \* the mounted view
    ev,                     \* history: the delete or submit click, if the last step was one
    mutLeft,                \* mutating requests (add, edit, delete) the user may still issue
    \* --- Category hierarchy editor (src/unnamed/part_002, lines 417-966)
    catSrv,                 \* the server's hierarchy
    catSrvNext,             \* the next id the server hands out
    hierarchy,
    catIsLoading,
    catSubmitStatus,
    categoryModalShow,
    subcategoryModalShow,
    productGroupModalShow,
    isEditingCategory,
    currentCategory,
    currentParent,
    currentSubcategory,
    catIsSubmitting,
    catNet,                 \* the view's requests in flight (a bag)
    lastAddClicked,         \* history: the node whose Add L2 / Add L3 button was clicked last
    \* --- Products (src/src/pages/apps/Ecommerce/Products.jsx)
    prodSrv,                \* the ids of the server's products
    products,
    allProducts,
    prodLoading,
    prodError,
    searchTerm,
    showModal,
    csvFile,
    uploading,
    uploadResult,
    closeTimers,            \* the auto-close timeouts that are pending
    prodNet,
    \* --- Orders (src/src/pages/apps/Ecommerce/Orders.jsx)
    ordSrv,                 \* the server's orders: id -> status, "none" once deleted
    orderList,
    filteredOrders,
    ordLoading,
    ordError,
    statusFilter,
    isDeleting,             \* the rows whose ActionColumn has isDeleting set
    showEditModal,
    editingOrder,
    editError,              \* "" for null
    editSuccess,            \* "" for null
    selectedOrder,          \* the order object the edit modal was opened with
    editFormData,           \* the status the modal's select holds
    editTimers,             \* the pending auto-close timeouts (a bag), each with the order of its update
    ordNet,
    \* --- OrderDetails (src/src/pages/apps/Ecommerce/OrderDetails.jsx)
    odSrv,                  \* the server's status of the order
    order,                  \* the status of the order held in state, "null" before it is fetched
    odLoading,
    odError,
    showUpdateModal,
    updating,
    updateStatus,
    actionSuccess,
    odNet,
    \* --- Inventory (src/src/pages/apps/Ecommerce/InventoryManagement.jsx)
    invSrv,                 \* the server's inventory records, by id
    invSrvNext,             \* the next id the server hands out
    inventory,
    lowStockItems,
    invIsLoading,
    invSubmitStatus,
    modalShow,
    isEditing,
    currentInventory,
    invIsSubmitting,
    currentPage,
    totalPages,
    invNet,
    \* --- ProductEdit (src/src/pages/apps/Ecommerce/ProductEdit.jsx)
    peProductId,            \* the route parameter productId, 0 when the route has none
    peSrv,                  \* the server's record of the product, and who wrote it
    categories,
    peIsLoading,
    isProductLoading,
    productData,
    peIsSubmitting,
    peSubmitStatus,
    peError,
    previewImage,
    formValues,             \* the values the form's inputs hold, as the text in them
    peNet,
    \* --- Session store and PrivateRoute (src/unnamed/part_000, Products.jsx 553-586)
    cookies,                \* cookies[authSessionKey], as react-cookie hands it out
    user,
    location,               \* the router's location: its pathname
    locationState,          \* the router's location: the pathname in state.from, "" without state
    roles,                  \* the roles prop of the PrivateRoute the location is under
    element,                \* what PrivateRoute returned at its last render
    \* --- Variation manager (src/src/pages/apps/Ecommerce/Variation.jsx)
    vmSrv,                  \* the server's variants
    vmSrvNext,              \* the next SKU number the server sees
    vmProducts,
    selectedProductId,      \* the text of the selected option, <<>> for ''
    variants,
    vmIsLoading,
    vmIsProductsLoading,
    vmSubmitStatus,
    createModalShow,
    editModalShow,
    currentAttribute,
    vmIsSubmitting,
    createProductId,        \* the create form's product_id field
    vmNet,
    \* --- Banners (src/src/pages/apps/Ecommerce/bannerAdd.jsx)
    bnSrv,                  \* the ids of the server's banners
    bnSrvNext,              \* the next id the server hands out
    banners,
    bnIsEditing,
    currentBannerId,        \* 0 for null
    bnSubmitStatus,
    bnIsSubmitting,
    bnPreviewImage,
    showDeleteModal,
    bannerToDelete,         \* 0 for null
    bnForm,                 \* the values of the form's inputs
    bnNet

catUi == <<hierarchy, catIsLoading, catSubmitStatus, categoryModalShow,
           subcategoryModalShow, productGroupModalShow, isEditingCategory,
           currentCategory, currentParent, currentSubcategory, catIsSubmitting>>
catVars == <<catSrv, catSrvNext, catUi, catNet, lastAddClicked>>

uploadUi == <<showModal, csvFile, uploading, uploadResult, closeTimers>>
prodUi == <<products, allProducts, prodLoading, prodError, searchTerm, uploadUi>>
prodVars == <<prodSrv, prodUi, prodNet>>
editUi == <<showEditModal, editingOrder, editError, editSuccess, selectedOrder, editFormData,
            editTimers>>
ordUi == <<orderList, filteredOrders, ordLoading, ordError, statusFilter, isDeleting, editUi>>
ordVars == <<ordSrv, ordUi, ordNet>>

\* What a view's steps leave alone: the state of the views that are not mounted.
odUi == <<order, odLoading, odError, showUpdateModal, updating, updateStatus, actionSuccess>>
odVars == <<odSrv, odUi, odNet>>

invUi == <<inventory, lowStockItems, invIsLoading, invSubmitStatus, modalShow, isEditing,
           currentInventory, invIsSubmitting, currentPage, totalPages>>
invVars == <<invSrv, invSrvNext, invUi, invNet>>

peUi == <<categories, peIsLoading, isProductLoading, productData, peIsSubmitting,
          peSubmitStatus, peError, previewImage, formValues>>
peVars == <<peProductId, peSrv, peUi, peNet>>

authVars == <<cookies, user, location, locationState, roles, element>>

vmUi == <<vmProducts, selectedProductId, variants, vmIsLoading, vmIsProductsLoading,
          vmSubmitStatus, createModalShow, editModalShow, currentAttribute, vmIsSubmitting,
          createProductId>>
vmVars == <<vmSrv, vmSrvNext, vmUi, vmNet>>

bnUi == <<banners, bnIsEditing, currentBannerId, bnSubmitStatus, bnIsSubmitting,
          bnPreviewImage, showDeleteModal, bannerToDelete, bnForm>>
bnVars == <<bnSrv, bnSrvNext, bnUi, bnNet>>

\* The views modelled last, as the first six views leave them.
laterVars == <<authVars, vmVars, bnVars>>

offCat == <<prodVars, ordVars, odVars, invVars, peVars, laterVars>>
offProd == <<catVars, ordVars, odVars, invVars, peVars, laterVars>>
offOrd == <<catVars, prodVars, odVars, invVars, peVars, laterVars>>
offOd == <<catVars, prodVars, ordVars, invVars, peVars, laterVars>>
offInv == <<catVars, prodVars, ordVars, odVars, peVars, laterVars>>
offPe == <<catVars, prodVars, ordVars, odVars, invVars, laterVars>>
firstVars == <<catVars, prodVars, ordVars, odVars, invVars, peVars>>
offAuth == <<firstVars, vmVars, bnVars>>
offVm == <<firstVars, authVars, bnVars>>
offBn == <<firstVars, authVars, vmVars>>

vars == <<route, ev, mutLeft, firstVars, laterVars>>

\* ---------------------------------------------------------------- helpers
\* Requests in flight are a bag: Send adds one, Take removes one, Swap
\* replaces one (the server's answer).
Send(net, r) == net (+) SetToBag({r})
Take(net, r) == net (-) SetToBag({r})
Swap(net, r, q) == Send(Take(net, r), q)
InFlight(net) == BagToSet(net)

\* The requests a step has put in flight.
Issued(net, after) ==
    {r \in InFlight(after) : r.st = "sent" /\ CopiesIn(r, after) > CopiesIn(r, net)}

\* ev records a click on a delete button with the user's answer to the
\* confirmation prompt, or a click on ProductEdit's submit button with the
\* resolver's verdict; every other step resets it.
Event(t, id, ok) == [t |-> t, id |-> id, ok |-> ok]
NoEvent == Event("", 0, TRUE)

\* ======================================================================
\* Category hierarchy editor
\* ======================================================================
\* The deepest level the editor renders with its own action set (L3).
LeafLevel == 3
\* Node ids: one per level, enough for a full L1 > L2 > L3 chain and for siblings.
NodeIds == 1..LeafLevel
MaxNodes == LeafLevel
\* The name the user types into a form.
TypedNames == {"b"}

\* A hierarchy is kept as the parent of every node: 0 for an L1 root, -1 for
\* an id that names no node. The children of a node are the nodes naming it.
Absent == [parent |-> -1, name |-> ""]
EmptyHierarchy == [n \in NodeIds |-> Absent]
Present(h, n) == h[n].parent >= 0
Roots(h) == {n \in NodeIds : h[n].parent = 0}
Children(h, n) == {m \in NodeIds : h[m].parent = n}

RECURSIVE IsUnder(_, _, _)
IsUnder(h, m, n) ==
    /\ h[m].parent > 0
    /\ \/ h[m].parent = n
       \/ IsUnder(h, h[m].parent, n)

\* Depth of a node from its L1 root, by walking up.
RECURSIVE Depth(_, _)
Depth(h, n) == IF h[n].parent <= 0 THEN 1 ELSE 1 + Depth(h, h[n].parent)

\* --- rendering: HierarchyRow
RootLevel == 1
\* A renderer that passes its own level down to its children.
SameLevel(level) == level
ChildLevel(level) == level + 1
IndentPx(level) == 10 + (level * 30)
RowActions(level) ==
    IF level = 1 THEN {"editCategory", "addL2", "deleteCategory"}
    ELSE IF level = 2 THEN {"editSub", "addL3", "deleteSub"}
    ELSE {"editSub", "deleteSub"}

RECURSIVE HierarchyRow(_, _, _)
HierarchyRow(h, item, level) ==
    {[id |-> item, level |-> level, indent |-> IndentPx(level),
      actions |-> RowActions(level)]}
    \cup UNION {HierarchyRow(h, child, ChildLevel(level)) : child \in Children(h, item)}

\* The rows on screen: none while loading or when the hierarchy is empty. A
\* row's children sit in a Collapse the user opens and closes at will (open,
\* line 796), so every row of the hierarchy is one the user can get to.
RenderedRows ==
    IF catIsLoading THEN {}
    ELSE UNION {HierarchyRow(hierarchy, cat, RootLevel) : cat \in Roots(hierarchy)}

AnyCatModal == categoryModalShow \/ subcategoryModalShow \/ productGroupModalShow

NoStatus == [message |-> "", variant |-> ""]
NoParent == [id |-> 0, level |-> 0]

CatReq(op, id, name, editing) ==
    [op |-> op, id |-> id, name |-> name, editing |-> editing,
     st |-> "sent", snap |-> EmptyHierarchy]
GetHierarchyReq == CatReq("GET", 0, "", FALSE)
CatMutations == {"ADDCAT", "EDITCAT", "ADDSUB", "EDITSUB", "DELCAT", "DELSUB"}
GetCount(net) == BagCardinality([r \in {x \in DOMAIN net : x.op = "GET"} |-> net[r]])


\* --- the server (a black box: any request may be refused)
\* The hierarchies the server may hold when the view mounts: nodes 1..k, every
\* node under an earlier one or an L1 root, at most three levels deep.
InitHierarchies ==
    {h \in [NodeIds -> [parent : -1..MaxNodes, name : {"a", ""}]] :
        \E k \in 0..MaxNodes :
            \A n \in NodeIds :
                IF n <= k
                THEN /\ h[n].name = "a"
                     /\ h[n].parent \in 0..(n - 1)
                ELSE h[n] = Absent}

InitDepthOk(h) == \A n \in NodeIds : Present(h, n) => Depth(h, n) <= LeafLevel

\* What the server holds after it accepts request r.
ServerApply(h, next, r) ==
    CASE r.op = "ADDCAT" -> [h EXCEPT ![next] = [parent |-> 0, name |-> r.name]]
      [] r.op = "ADDSUB" -> [h EXCEPT ![next] = [parent |-> r.id, name |-> r.name]]
      [] r.op \in {"EDITCAT", "EDITSUB"} -> [h EXCEPT ![r.id].name = r.name]
      [] r.op \in {"DELCAT", "DELSUB"} ->
            [n \in NodeIds |-> IF n = r.id \/ IsUnder(h, n, r.id) THEN Absent ELSE h[n]]
      [] OTHER -> h

\* Whether the server can accept request r: the node it names exists, and an
\* add finds a free id.
ServerCanAccept(h, next, r) ==
    CASE r.op = "ADDCAT" -> next <= MaxNodes
      [] r.op = "ADDSUB" -> next <= MaxNodes /\ Present(h, r.id)
      [] r.op \in {"EDITCAT", "EDITSUB", "DELCAT", "DELSUB"} -> Present(h, r.id)
      [] OTHER -> TRUE

CatServerAccept(r) ==
    /\ route = "category"
    /\ r \in InFlight(catNet)
    /\ r.st = "sent"
    /\ ServerCanAccept(catSrv, catSrvNext, r)
    /\ catSrv' = ServerApply(catSrv, catSrvNext, r)
    /\ catSrvNext' = IF r.op \in {"ADDCAT", "ADDSUB"} THEN catSrvNext + 1 ELSE catSrvNext
    /\ catNet' = Swap(catNet, r, [r EXCEPT !.st = "ok",
                                          !.snap = IF r.op = "GET" THEN catSrv ELSE EmptyHierarchy])
    /\ ev' = NoEvent
    /\ UNCHANGED <<route, offCat, mutLeft, catUi, lastAddClicked>>

\* A non-2xx answer or a failed transport; for the GET also a 2xx answer
\* that carries no hierarchy.
CatServerRefuse(r) ==
    /\ route = "category"
    /\ r \in InFlight(catNet)
    /\ r.st = "sent"
    /\ \E st \in (IF r.op = "GET" THEN {"fail", "nodata"} ELSE {"fail"}) :
          catNet' = Swap(catNet, r, [r EXCEPT !.st = st])
    /\ ev' = NoEvent
    /\ UNCHANGED <<route, offCat, mutLeft, catSrv, catSrvNext, catUi, lastAddClicked>>

\* A handler that leaves the hierarchy as fetched before.
FetchSkipped(net) == net
\* --- fetchAllNestedCategories: the request it issues; its caller's step sets
\* isLoading and clears the banner.
FetchAllNestedCategories(net) == Send(net, GetHierarchyReq)

FetchHierarchyDone(r) ==
    /\ route = "category"
    /\ r \in InFlight(catNet)
    /\ r.op = "GET"
    /\ r.st # "sent"
    /\ hierarchy' = CASE r.st = "ok" -> r.snap
                      [] r.st = "nodata" -> EmptyHierarchy
                      [] OTHER -> hierarchy
    /\ catSubmitStatus' =
          CASE r.st = "ok" -> catSubmitStatus
            [] r.st = "nodata" -> [message |-> "No hierarchy data found.", variant |-> "info"]
            [] OTHER -> [message |-> "Failed to fetch hierarchy", variant |-> "danger"]
    /\ catIsLoading' = FALSE
    /\ catNet' = Take(catNet, r)
    /\ ev' = NoEvent
    /\ UNCHANGED <<route, offCat, mutLeft, catSrv, catSrvNext, categoryModalShow, subcategoryModalShow,
                   productGroupModalShow, isEditingCategory, currentCategory, currentParent,
                   currentSubcategory, catIsSubmitting, lastAddClicked>>

\* --- modal handlers
openAddCategoryModal ==
    /\ route = "category"
    /\ ~AnyCatModal
    /\ isEditingCategory' = FALSE
    /\ currentCategory' = 0
    /\ categoryModalShow' = TRUE
    /\ ev' = NoEvent
    /\ UNCHANGED <<route, offCat, mutLeft, catSrv, catSrvNext, hierarchy, catIsLoading, catSubmitStatus,
                   subcategoryModalShow, productGroupModalShow, currentParent,
                   currentSubcategory, catIsSubmitting, catNet, lastAddClicked>>

openEditCategoryModal(category) ==
    /\ route = "category"
    /\ ~AnyCatModal
    /\ \E row \in RenderedRows : row.id = category /\ "editCategory" \in row.actions
    /\ isEditingCategory' = TRUE
    /\ currentCategory' = category
    /\ categoryModalShow' = TRUE
    /\ ev' = NoEvent
    /\ UNCHANGED <<route, offCat, mutLeft, catSrv, catSrvNext, hierarchy, catIsLoading, catSubmitStatus,
                   subcategoryModalShow, productGroupModalShow, currentParent,
                   currentSubcategory, catIsSubmitting, catNet, lastAddClicked>>

handleCategoryModalClose ==
    /\ route = "category"
    /\ categoryModalShow
    /\ categoryModalShow' = FALSE
    /\ catSubmitStatus' = NoStatus
    /\ ev' = NoEvent
    /\ UNCHANGED <<route, offCat, mutLeft, catSrv, catSrvNext, hierarchy, catIsLoading,
                   subcategoryModalShow, productGroupModalShow, isEditingCategory,
                   currentCategory, currentParent, currentSubcategory, catIsSubmitting,
                   catNet, lastAddClicked>>

\* A modal that keeps the parent an earlier modal left behind.
ParentKept(node, level) ==
    IF currentParent.id # 0 THEN currentParent ELSE [id |-> node, level |-> level]
\* The parent an add modal records for the node whose add button was clicked.
ParentOf(node, level) == [id |-> node, level |-> level]

openAddSubcategoryModal(parentCategory) ==
    /\ route = "category"
    /\ ~AnyCatModal
    /\ \E row \in RenderedRows : row.id = parentCategory /\ "addL2" \in row.actions
    /\ currentParent' = ParentOf(parentCategory, 1)
    /\ currentSubcategory' = 0
    /\ subcategoryModalShow' = TRUE
    /\ lastAddClicked' = parentCategory
    /\ ev' = NoEvent
    /\ UNCHANGED <<route, offCat, mutLeft, catSrv, catSrvNext, hierarchy, catIsLoading, catSubmitStatus,
                   categoryModalShow, productGroupModalShow, isEditingCategory,
                   currentCategory, catIsSubmitting, catNet>>

\* An edit opener that leaves the add parent of an earlier add in place.
EditKeepsParent(item) ==
    /\ route = "category"
    /\ ~AnyCatModal
    /\ \E row \in RenderedRows : row.id = item /\ "editSub" \in row.actions
    /\ currentSubcategory' = item
    /\ subcategoryModalShow' = TRUE
    /\ ev' = NoEvent
    /\ UNCHANGED <<route, offCat, mutLeft, catSrv, catSrvNext, hierarchy, catIsLoading, catSubmitStatus,
                   categoryModalShow, productGroupModalShow, isEditingCategory,
                   currentCategory, currentParent, catIsSubmitting, catNet, lastAddClicked>>

openEditSubcategoryModal(item) ==
    /\ route = "category"
    /\ ~AnyCatModal
    /\ \E row \in RenderedRows : row.id = item /\ "editSub" \in row.actions
    /\ currentSubcategory' = item
    /\ currentParent' = NoParent
    /\ subcategoryModalShow' = TRUE
    /\ ev' = NoEvent
    /\ UNCHANGED <<route, offCat, mutLeft, catSrv, catSrvNext, hierarchy, catIsLoading, catSubmitStatus,
                   categoryModalShow, productGroupModalShow, isEditingCategory,
                   currentCategory, catIsSubmitting, catNet, lastAddClicked>>

handleSubcategoryModalClose ==
    /\ route = "category"
    /\ subcategoryModalShow
    /\ subcategoryModalShow' = FALSE
    /\ catSubmitStatus' = NoStatus
    /\ ev' = NoEvent
    /\ UNCHANGED <<route, offCat, mutLeft, catSrv, catSrvNext, hierarchy, catIsLoading,
                   categoryModalShow, productGroupModalShow, isEditingCategory,
                   currentCategory, currentParent, currentSubcategory, catIsSubmitting,
                   catNet, lastAddClicked>>

openAddProductGroupModal(parentSubcategory) ==
    /\ route = "category"
    /\ ~AnyCatModal
    /\ \E row \in RenderedRows : row.id = parentSubcategory /\ "addL3" \in row.actions
    /\ currentParent' = ParentOf(parentSubcategory, 2)
    /\ currentSubcategory' = 0
    /\ productGroupModalShow' = TRUE
    /\ lastAddClicked' = parentSubcategory
    /\ ev' = NoEvent
    /\ UNCHANGED <<route, offCat, mutLeft, catSrv, catSrvNext, hierarchy, catIsLoading, catSubmitStatus,
                   categoryModalShow, subcategoryModalShow, isEditingCategory,
                   currentCategory, catIsSubmitting, catNet>>

handleProductGroupModalClose ==
    /\ route = "category"
    /\ productGroupModalShow
    /\ productGroupModalShow' = FALSE
    /\ catSubmitStatus' = NoStatus
    /\ ev' = NoEvent
    /\ UNCHANGED <<route, offCat, mutLeft, catSrv, catSrvNext, hierarchy, catIsLoading,
                   categoryModalShow, subcategoryModalShow, isEditingCategory,
                   currentCategory, currentParent, currentSubcategory, catIsSubmitting,
                   catNet, lastAddClicked>>


\* --- submissions
\* onCategorySubmit: PUT by id when editing a category, POST otherwise.
CategoryRequest(name) ==
    IF isEditingCategory /\ currentCategory # 0
    THEN CatReq("EDITCAT", currentCategory, name, isEditingCategory)
    ELSE CatReq("ADDCAT", 0, name, isEditingCategory)

onCategorySubmit(name) ==
    /\ route = "category"
    /\ categoryModalShow
    /\ ~catIsSubmitting
    /\ mutLeft > 0
    /\ mutLeft' = mutLeft - 1
    /\ catIsSubmitting' = TRUE
    /\ catSubmitStatus' = NoStatus
    /\ catNet' = Send(catNet, CategoryRequest(name))
    /\ ev' = NoEvent
    /\ UNCHANGED <<route, offCat, catSrv, catSrvNext, hierarchy, catIsLoading, categoryModalShow,
                   subcategoryModalShow, productGroupModalShow, isEditingCategory,
                   currentCategory, currentParent, currentSubcategory, lastAddClicked>>

\* onSubcategorySubmit: PUT by id when an item is being edited, POST with the
\* recorded parent's id when one is being added; "NONE" is the branch that
\* reports an invalid state.
SubcategoryRequest(name) ==
    IF currentSubcategory # 0
    THEN CatReq("EDITSUB", currentSubcategory, name, TRUE)
    ELSE IF currentParent # NoParent
    THEN CatReq("ADDSUB", currentParent.id, name, FALSE)
    ELSE CatReq("NONE", 0, name, FALSE)

onSubcategorySubmit(name) ==
    /\ route = "category"
    /\ subcategoryModalShow \/ productGroupModalShow
    /\ ~catIsSubmitting
    /\ mutLeft > 0
    /\ mutLeft' = mutLeft - 1
    /\ catIsSubmitting' = TRUE
    /\ IF SubcategoryRequest(name).op = "NONE"
       THEN /\ catSubmitStatus' = [message |-> "Invalid state for submission.", variant |-> "danger"]
            /\ catNet' = catNet
       ELSE /\ catSubmitStatus' = NoStatus
            /\ catNet' = Send(catNet, SubcategoryRequest(name))
    /\ ev' = NoEvent
    /\ UNCHANGED <<route, offCat, catSrv, catSrvNext, hierarchy, catIsLoading, categoryModalShow,
                   subcategoryModalShow, productGroupModalShow, isEditingCategory,
                   currentCategory, currentParent, currentSubcategory, lastAddClicked>>

\* A handler that swallows the failure.
FailureSwallowed(r) == [message |-> "", variant |-> ""]
\* The banner a failed submission or delete leaves.
FailureStatus(r) ==
    [message |-> CASE r.op \in {"DELCAT", "DELSUB"} -> "Failed to delete"
                   [] r.op = "ADDSUB" -> "Failed to add"
                   [] r.op = "EDITSUB" -> "Failed to update"
                   [] r.editing -> "Failed to update category"
                   [] OTHER -> "Failed to add category",
     variant |-> "danger"]

\* The rest of onCategorySubmit, once its request is answered. On success
\* the success banner is set, then cleared by the re-fetch it starts and by
\* the modal's close.
CategorySubmitDone(r) ==
    /\ route = "category"
    /\ r \in InFlight(catNet)
    /\ r.op \in {"ADDCAT", "EDITCAT"}
    /\ r.st # "sent"
    /\ IF r.st = "ok"
       THEN /\ catSubmitStatus' = NoStatus
            /\ catIsLoading' = TRUE
            /\ catNet' = FetchAllNestedCategories(Take(catNet, r))
            /\ categoryModalShow' = FALSE
       ELSE /\ catSubmitStatus' = FailureStatus(r)
            /\ catNet' = Take(catNet, r)
            /\ UNCHANGED <<catIsLoading, categoryModalShow>>
    /\ catIsSubmitting' = FALSE
    /\ ev' = NoEvent
    /\ UNCHANGED <<route, offCat, mutLeft, catSrv, catSrvNext, hierarchy, subcategoryModalShow,
                   productGroupModalShow, isEditingCategory, currentCategory, currentParent,
                   currentSubcategory, lastAddClicked>>

\* The rest of onSubcategorySubmit, once its request is answered.
SubcategorySubmitDone(r) ==
    /\ route = "category"
    /\ r \in InFlight(catNet)
    /\ r.op \in {"ADDSUB", "EDITSUB"}
    /\ r.st # "sent"
    /\ IF r.st = "ok"
       THEN /\ catSubmitStatus' = NoStatus
            /\ catIsLoading' = TRUE
            /\ catNet' = FetchAllNestedCategories(Take(catNet, r))
            /\ subcategoryModalShow' = FALSE
            /\ productGroupModalShow' = FALSE
       ELSE /\ catSubmitStatus' = FailureStatus(r)
            /\ catNet' = Take(catNet, r)
            /\ UNCHANGED <<catIsLoading, subcategoryModalShow, productGroupModalShow>>
    /\ catIsSubmitting' = FALSE
    /\ ev' = NoEvent
    /\ UNCHANGED <<route, offCat, mutLeft, catSrv, catSrvNext, hierarchy, categoryModalShow,
                   isEditingCategory, currentCategory, currentParent, currentSubcategory,
                   lastAddClicked>>

\* --- handleDelete: window.confirm blocks, so the click and the user's answer
\* are one step. A declined prompt returns at once.
DeleteRequest(row) ==
    CatReq(IF "deleteCategory" \in row.actions THEN "DELCAT" ELSE "DELSUB", row.id, "", FALSE)

catHandleDelete(row, confirmed) ==
    /\ route = "category"
    /\ ~AnyCatModal
    /\ row \in RenderedRows
    /\ IF confirmed
       THEN /\ mutLeft > 0
            /\ mutLeft' = mutLeft - 1
            /\ catSubmitStatus' = NoStatus
            /\ catNet' = Send(catNet, DeleteRequest(row))
       ELSE UNCHANGED <<mutLeft, catSubmitStatus, catNet>>
    /\ ev' = Event("category", IF confirmed THEN row.id ELSE 0, confirmed)
    /\ UNCHANGED <<route, offCat, catSrv, catSrvNext, hierarchy, catIsLoading, categoryModalShow,
                   subcategoryModalShow, productGroupModalShow, isEditingCategory,
                   currentCategory, currentParent, currentSubcategory, catIsSubmitting,
                   lastAddClicked>>

catDeleteDone(r) ==
    /\ route = "category"
    /\ r \in InFlight(catNet)
    /\ r.op \in {"DELCAT", "DELSUB"}
    /\ r.st # "sent"
    /\ IF r.st = "ok"
       THEN /\ catSubmitStatus' = NoStatus
            /\ catIsLoading' = TRUE
            /\ catNet' = FetchAllNestedCategories(Take(catNet, r))
       ELSE /\ catSubmitStatus' = FailureStatus(r)
            /\ catNet' = Take(catNet, r)
            /\ UNCHANGED catIsLoading
    /\ ev' = NoEvent
    /\ UNCHANGED <<route, offCat, mutLeft, catSrv, catSrvNext, hierarchy, categoryModalShow,
                   subcategoryModalShow, productGroupModalShow, isEditingCategory,
                   currentCategory, currentParent, currentSubcategory, catIsSubmitting,
                   lastAddClicked>>

\* The view before it mounts, and right after: isLoading starts true and the
\* mount effect has issued the first fetch.
CatUnmounted ==
    /\ catSrv = EmptyHierarchy
    /\ catSrvNext = 1
    /\ hierarchy = EmptyHierarchy
    /\ catIsLoading = TRUE
    /\ catSubmitStatus = NoStatus
    /\ categoryModalShow = FALSE
    /\ subcategoryModalShow = FALSE
    /\ productGroupModalShow = FALSE
    /\ isEditingCategory = FALSE
    /\ currentCategory = 0
    /\ currentParent = NoParent
    /\ currentSubcategory = 0
    /\ catIsSubmitting = FALSE
    /\ catNet = EmptyBag
    /\ lastAddClicked = 0

CatMounted ==
    /\ catSrv \in {h \in InitHierarchies : InitDepthOk(h)}
    /\ catSrvNext = 1 + Cardinality({n \in NodeIds : Present(catSrv, n)})
    /\ hierarchy = EmptyHierarchy
    /\ catIsLoading = TRUE
    /\ catSubmitStatus = NoStatus
    /\ categoryModalShow = FALSE
    /\ subcategoryModalShow = FALSE
    /\ productGroupModalShow = FALSE
    /\ isEditingCategory = FALSE
    /\ currentCategory = 0
    /\ currentParent = NoParent
    /\ currentSubcategory = 0
    /\ catIsSubmitting = FALSE
    /\ catNet = SetToBag({GetHierarchyReq})
    /\ lastAddClicked = 0

\* The user's steps and the handlers' continuations.
CatClient ==
    \/ \E r \in InFlight(catNet) : FetchHierarchyDone(r)
    \/ openAddCategoryModal
    \/ \E n \in NodeIds : openEditCategoryModal(n)
    \/ handleCategoryModalClose
    \/ \E n \in NodeIds : openAddSubcategoryModal(n)
    \/ \E n \in NodeIds : openEditSubcategoryModal(n)
    \/ handleSubcategoryModalClose
    \/ \E n \in NodeIds : openAddProductGroupModal(n)
    \/ handleProductGroupModalClose
    \/ \E name \in TypedNames : onCategorySubmit(name)
    \/ \E name \in TypedNames : onSubcategorySubmit(name)
    \/ \E r \in InFlight(catNet) : CategorySubmitDone(r)
    \/ \E r \in InFlight(catNet) : SubcategorySubmitDone(r)
    \/ \E row \in RenderedRows, confirmed \in BOOLEAN : catHandleDelete(row, confirmed)
    \/ \E r \in InFlight(catNet) : catDeleteDone(r)

NextCat ==
    \/ \E r \in InFlight(catNet) : CatServerAccept(r)
    \/ \E r \in InFlight(catNet) : CatServerRefuse(r)
    \/ CatClient

\* The editor against a server that accepts every request it can.
NextCatOk ==
    \/ \E r \in InFlight(catNet) : CatServerAccept(r)
    \/ CatClient

\* ----------------------------------------------------------------------
\* Products (src/src/pages/apps/Ecommerce/Products.jsx)
\* ----------------------------------------------------------------------
ProdIds == 1..MaxProd

\* The fields of a product the view reads; a product is its product_id here
\* and its fields are functions of it.
ProductName(id) == IF id % 2 = 1 THEN <<"A", "b">> ELSE <<"b">>
ProductPrice(id) == 100 - id
ProductStock(id) == IF id % 2 = 0 THEN 5 ELSE 20
SearchValues == {<<>>, <<"a">>}
SortValues == {"", "pricelow", "pricehigh", "lowstock"}

LowerChar(c) == CASE c = "A" -> "a" [] c = "B" -> "b" [] OTHER -> c
toLowerCase(str) == [i \in 1..Len(str) |-> LowerChar(str[i])]
includes(str, value) ==
    \E i \in 0..(Len(str) - Len(value)) : SubSeq(str, i + 1, i + Len(value)) = value

RECURSIVE filter(_, _)
filter(list, keep) ==
    IF list = <<>> THEN <<>>
    ELSE (IF keep[Head(list)] THEN <<Head(list)>> ELSE <<>>) \o filter(Tail(list), keep)

\* Array.prototype.sort with a comparator on key (stable).
RECURSIVE insertSorted(_, _, _)
insertSorted(list, x, key) ==
    IF list = <<>> THEN <<x>>
    ELSE IF key[x] < key[Head(list)] THEN <<x>> \o list
    ELSE <<Head(list)>> \o insertSorted(Tail(list), x, key)
RECURSIVE sort(_, _)
sort(list, key) ==
    IF list = <<>> THEN <<>>
    ELSE insertSorted(sort(SubSeq(list, 1, Len(list) - 1), key), list[Len(list)], key)

RECURSIVE ListOf(_)
ListOf(S) == IF S = {} THEN <<>>
             ELSE LET m == CHOOSE x \in S : \A y \in S : x <= y IN <<m>> \o ListOf(S \ {m})
Elements(list) == {list[i] : i \in 1..Len(list)}

MatchesSearch(value) ==
    [id \in ProdIds |-> includes(toLowerCase(ProductName(id)), toLowerCase(value))]

ProdReq(op, id, closure) == [op |-> op, id |-> id, st |-> "sent", data |-> <<>>, closure |-> closure]
GetProductsReq == ProdReq("GET", 0, <<>>)

ProdServerAccept(r) ==
    /\ route = "products"
    /\ r \in InFlight(prodNet)
    /\ r.st = "sent"
    /\ r.op # "UPLOAD"
    /\ r.op = "DELETE" => r.id \in prodSrv
    /\ prodSrv' = IF r.op = "DELETE" THEN prodSrv \ {r.id} ELSE prodSrv
    /\ prodNet' = Swap(prodNet, r, [r EXCEPT !.st = "ok",
                                            !.data = IF r.op = "GET" THEN ListOf(prodSrv) ELSE <<>>])
    /\ ev' = NoEvent
    /\ UNCHANGED <<route, offProd, mutLeft, prodUi>>

ProdServerRefuse(r) ==
    /\ route = "products"
    /\ r \in InFlight(prodNet)
    /\ r.st = "sent"
    /\ prodNet' = Swap(prodNet, r, [r EXCEPT !.st = "fail"])
    /\ ev' = NoEvent
    /\ UNCHANGED <<route, offProd, mutLeft, prodSrv, prodUi>>

\* The server processes an uploaded CSV and answers 2xx: the rows it could
\* create are created, and the answer tells whether some rows failed.
ProdServerUpload(r, created, partial) ==
    /\ route = "products"
    /\ r \in InFlight(prodNet)
    /\ r.st = "sent"
    /\ r.op = "UPLOAD"
    /\ created \subseteq ProdIds \ prodSrv
    /\ prodSrv' = prodSrv \cup created
    /\ prodNet' = Swap(prodNet, r, [r EXCEPT !.st = IF partial THEN "partial" ELSE "ok"])
    /\ ev' = NoEvent
    /\ UNCHANGED <<route, offProd, mutLeft, prodUi>>

\* The upload gets no answer that can be read: fetch or response.json() throws.
ProdUploadThrows(r) ==
    /\ route = "products"
    /\ r \in InFlight(prodNet)
    /\ r.st = "sent"
    /\ r.op = "UPLOAD"
    /\ prodNet' = Swap(prodNet, r, [r EXCEPT !.st = "throw"])
    /\ ev' = NoEvent
    /\ UNCHANGED <<route, offProd, mutLeft, prodSrv, prodUi>>

\* fetchProducts up to its await: the GET is sent (setLoading(true) and
\* setError(null) are in the steps of its callers).
fetchProducts(net) == Send(net, GetProductsReq)

\* The rest of fetchProducts, once the GET is answered.
fetchProductsDone(r) ==
    /\ route = "products"
    /\ r \in InFlight(prodNet)
    /\ r.op = "GET"
    /\ r.st # "sent"
    /\ IF r.st = "ok"
       THEN /\ products' = r.data
            /\ allProducts' = r.data
            /\ UNCHANGED prodError
       ELSE /\ prodError' = TRUE
            /\ UNCHANGED <<products, allProducts>>
    /\ prodLoading' = FALSE
    /\ prodNet' = Take(prodNet, r)
    /\ ev' = NoEvent
    /\ UNCHANGED <<route, offProd, mutLeft, prodSrv, searchTerm, uploadUi>>

\* The page proper: past the spinner and the error page.
PageShown == ~prodLoading /\ ~prodError
\* The bulk upload modal is on screen, over the page (backdrop="static").
ModalShown == PageShown /\ showModal

\* The product cards that can be clicked: those of the page, unless the modal covers it.
ProductCards == IF PageShown /\ ~showModal THEN Elements(products) ELSE {}

\* A handler that deletes the first card, whichever was clicked.
ProductDeleteFirst(productId) == ProdReq("DELETE", Head(products), products)
\* The DELETE for the clicked card, with the products array of this render.
ProductDeleteReq(productId) == ProdReq("DELETE", productId, products)

\* deleteProduct up to its await: the confirmation prompt, then the DELETE.
\* The rest of the handler keeps the products array of this render.
deleteProduct(productId, confirmed) ==
    /\ route = "products"
    /\ productId \in ProductCards
    /\ IF confirmed
       THEN /\ mutLeft > 0
            /\ mutLeft' = mutLeft - 1
            /\ prodNet' = Send(prodNet, ProductDeleteReq(productId))
       ELSE UNCHANGED <<mutLeft, prodNet>>
    /\ ev' = Event("products", IF confirmed THEN productId ELSE 0, confirmed)
    /\ UNCHANGED <<route, offProd, prodSrv, prodUi>>

\* The rest of deleteProduct, once the DELETE is answered.
deleteProductDone(r) ==
    /\ route = "products"
    /\ r \in InFlight(prodNet)
    /\ r.op = "DELETE"
    /\ r.st # "sent"
    /\ IF r.st = "ok"
       THEN LET updatedProducts == filter(r.closure, [p \in ProdIds |-> p # r.id])
            IN  /\ products' = updatedProducts
                /\ allProducts' = updatedProducts
       ELSE UNCHANGED <<products, allProducts>>
    /\ prodNet' = Take(prodNet, r)
    /\ ev' = NoEvent
    /\ UNCHANGED <<route, offProd, mutLeft, prodSrv, prodLoading, prodError, searchTerm,
                   uploadUi>>

searchProduct(value) ==
    /\ route = "products"
    /\ PageShown /\ ~showModal
    /\ searchTerm' = value
    /\ products' = IF value = <<>> THEN allProducts ELSE filter(allProducts, MatchesSearch(value))
    /\ ev' = NoEvent
    /\ UNCHANGED <<route, offProd, mutLeft, prodSrv, allProducts, prodLoading, prodError,
                   uploadUi, prodNet>>

handleSortChange(value) ==
    /\ route = "products"
    /\ PageShown /\ ~showModal
    /\ LET sortedProducts ==
               CASE value = "pricelow" -> sort(allProducts, [p \in ProdIds |-> ProductPrice(p)])
                 [] value = "pricehigh" -> sort(allProducts, [p \in ProdIds |-> 0 - ProductPrice(p)])
                 [] OTHER -> filter(allProducts, [p \in ProdIds |-> ProductStock(p) < 10])
       IN  products' = IF value = "" THEN allProducts
                       ELSE IF searchTerm # <<>> THEN filter(sortedProducts, MatchesSearch(searchTerm))
                       ELSE sortedProducts
    /\ ev' = NoEvent
    /\ UNCHANGED <<route, offProd, mutLeft, prodSrv, allProducts, prodLoading, prodError,
                   searchTerm, uploadUi, prodNet>>

\* The "Bulk Upload (CSV)" button.
openBulkUpload ==
    /\ route = "products"
    /\ PageShown /\ ~showModal
    /\ showModal' = TRUE
    /\ ev' = NoEvent
    /\ UNCHANGED <<route, offProd, mutLeft, prodSrv, products, allProducts, prodLoading,
                   prodError, searchTerm, csvFile, uploading, uploadResult, closeTimers,
                   prodNet>>

\* The close button of the modal's header (onHide).
onHide ==
    /\ route = "products"
    /\ ModalShown
    /\ showModal' = FALSE
    /\ ev' = NoEvent
    /\ UNCHANGED <<route, offProd, mutLeft, prodSrv, products, allProducts, prodLoading,
                   prodError, searchTerm, csvFile, uploading, uploadResult, closeTimers,
                   prodNet>>

\* The Close button of the modal's footer.
closeBulkUpload ==
    /\ route = "products"
    /\ ModalShown
    /\ showModal' = FALSE
    /\ uploadResult' = "null"
    /\ csvFile' = "null"
    /\ ev' = NoEvent
    /\ UNCHANGED <<route, offProd, mutLeft, prodSrv, products, allProducts, prodLoading,
                   prodError, searchTerm, uploading, closeTimers, prodNet>>

handleFileChange(file) ==
    /\ route = "products"
    /\ ModalShown
    /\ csvFile' = file
    /\ uploadResult' = "null"
    /\ ev' = NoEvent
    /\ UNCHANGED <<route, offProd, mutLeft, prodSrv, products, allProducts, prodLoading,
                   prodError, searchTerm, showModal, uploading, closeTimers, prodNet>>

UploadReq == ProdReq("UPLOAD", 0, <<>>)

\* handleBulkUpload up to its await. The submit button is disabled while an
\* upload runs and while no file is chosen.
handleBulkUpload ==
    /\ route = "products"
    /\ ModalShown
    /\ ~uploading
    /\ csvFile # "null"
    /\ mutLeft > 0
    /\ mutLeft' = mutLeft - 1
    /\ uploading' = TRUE
    /\ uploadResult' = "null"
    /\ prodNet' = Send(prodNet, UploadReq)
    /\ ev' = NoEvent
    /\ UNCHANGED <<route, offProd, prodSrv, products, allProducts, prodLoading, prodError,
                   searchTerm, showModal, csvFile, closeTimers>>

\* response.ok of the answer to an upload.
ResponseOk(r) == r.st \in {"ok", "partial"}

\* An upload that schedules nothing.
NoTimeout(timers) == timers
\* setTimeout(() => setShowModal(false), 2000)
setTimeout(timers) == timers + 1

\* The rest of handleBulkUpload, once the POST is answered.
handleBulkUploadDone(r) ==
    /\ route = "products"
    /\ r \in InFlight(prodNet)
    /\ r.op = "UPLOAD"
    /\ r.st # "sent"
    /\ uploading' = FALSE
    /\ uploadResult' = IF r.st = "throw" THEN "error" ELSE r.st
    /\ IF ResponseOk(r)
       THEN /\ prodLoading' = TRUE
            /\ prodError' = FALSE
            /\ prodNet' = fetchProducts(Take(prodNet, r))
            /\ closeTimers' = setTimeout(closeTimers)
       ELSE /\ prodNet' = Take(prodNet, r)
            /\ UNCHANGED <<prodLoading, prodError, closeTimers>>
    /\ ev' = NoEvent
    /\ UNCHANGED <<route, offProd, mutLeft, prodSrv, products, allProducts, searchTerm,
                   showModal, csvFile>>

\* A pending auto-close timeout fires.
autoClose ==
    /\ route = "products"
    /\ closeTimers > 0
    /\ closeTimers' = closeTimers - 1
    /\ showModal' = FALSE
    /\ ev' = NoEvent
    /\ UNCHANGED <<route, offProd, mutLeft, prodSrv, products, allProducts, prodLoading,
                   prodError, searchTerm, csvFile, uploading, uploadResult, prodNet>>

\* "Try Again" on the error page: window.location.reload() mounts the view
\* anew; the timeouts and the requests in flight end with the page.
prodTryAgain ==
    /\ route = "products"
    /\ prodError
    /\ products' = <<>>
    /\ allProducts' = <<>>
    /\ prodLoading' = TRUE
    /\ prodError' = FALSE
    /\ searchTerm' = <<>>
    /\ showModal' = FALSE
    /\ csvFile' = "null"
    /\ uploading' = FALSE
    /\ uploadResult' = "null"
    /\ closeTimers' = 0
    /\ prodNet' = fetchProducts(EmptyBag)
    /\ ev' = NoEvent
    /\ UNCHANGED <<route, offProd, mutLeft, prodSrv>>

ProdUnmounted ==
    /\ prodSrv = {}
    /\ products = <<>>
    /\ allProducts = <<>>
    /\ prodLoading = TRUE
    /\ prodError = FALSE
    /\ searchTerm = <<>>
    /\ showModal = FALSE
    /\ csvFile = "null"
    /\ uploading = FALSE
    /\ uploadResult = "null"
    /\ closeTimers = 0
    /\ prodNet = EmptyBag

ProdMounted ==
    /\ prodSrv \in {1..k : k \in 0..MaxProd}
    /\ products = <<>>
    /\ allProducts = <<>>
    /\ prodLoading = TRUE
    /\ prodError = FALSE
    /\ searchTerm = <<>>
    /\ showModal = FALSE
    /\ csvFile = "null"
    /\ uploading = FALSE
    /\ uploadResult = "null"
    /\ closeTimers = 0
    /\ prodNet = fetchProducts(EmptyBag)

NextProd ==
    \/ \E r \in InFlight(prodNet) : ProdServerAccept(r)
    \/ \E r \in InFlight(prodNet) : ProdServerRefuse(r)
    \/ \E r \in InFlight(prodNet) : fetchProductsDone(r)
    \/ \E productId \in ProdIds, confirmed \in BOOLEAN : deleteProduct(productId, confirmed)
    \/ \E r \in InFlight(prodNet) : deleteProductDone(r)
    \/ \E value \in SearchValues : searchProduct(value)
    \/ \E value \in SortValues : handleSortChange(value)
    \/ \E r \in InFlight(prodNet), created \in SUBSET ProdIds, partial \in BOOLEAN :
           ProdServerUpload(r, created, partial)
    \/ \E r \in InFlight(prodNet) : ProdUploadThrows(r)
    \/ openBulkUpload
    \/ onHide
    \/ closeBulkUpload
    \/ \E file \in {"null", "products.csv"} : handleFileChange(file)
    \/ handleBulkUpload
    \/ \E r \in InFlight(prodNet) : handleBulkUploadDone(r)
    \/ autoClose
    \/ prodTryAgain

\* ----------------------------------------------------------------------
\* Orders (src/src/pages/apps/Ecommerce/Orders.jsx)
\* ----------------------------------------------------------------------
OrdIds == 1..MaxOrd
NoOrders == [id \in OrdIds |-> "none"]
\* The statuses of the orders the server starts with.
OrderStatus(id) == IF id % 2 = 1 THEN "Pending" ELSE "Completed"
StatusFilters == {"All", "Pending", "Completed"}

\* status?.toLowerCase() of the status strings the model uses.
LowerStatus(status) ==
    CASE status = "Pending" -> "pending"
      [] status = "Processing" -> "processing"
      [] status = "Shipped" -> "shipped"
      [] status = "Completed" -> "completed"
      [] status = "Cancelled" -> "cancelled"
      [] status = "Delivered" -> "delivered"
      [] OTHER -> status

\* The class of the badge in the Status column of the orders table.
getStatusClass(status) ==
    CASE LowerStatus(status) \in {"delivered", "completed"} -> "bg-success"
      [] LowerStatus(status) = "cancelled" -> "bg-danger"
      [] LowerStatus(status) = "shipped" -> "bg-info"
      [] LowerStatus(status) = "processing" -> "bg-warning"
      [] LowerStatus(status) = "pending" -> "bg-secondary"
      [] OTHER -> "bg-light text-dark"

\* The class react-bootstrap gives <Badge bg={bg}>.
BadgeClass(bg) == "bg-" \o bg

\* The effect on [statusFilter, orderList].
FilterOrders(status, list) ==
    IF status = "All" THEN list
    ELSE [id \in OrdIds |-> IF list[id] = status THEN list[id] ELSE "none"]

\* The edit modal before it is first opened.
NoSelected == [id |-> 0, status |-> "none"]
EditClosed ==
    /\ showEditModal = FALSE
    /\ editingOrder = FALSE
    /\ editError = ""
    /\ editSuccess = ""
    /\ selectedOrder = NoSelected
    /\ editFormData = ""
    /\ editTimers = EmptyBag

\* live: the page that issued the request is still the one loaded.
OrdReq(op, id) ==
    [op |-> op, id |-> id, status |-> "none", st |-> "sent", data |-> NoOrders, live |-> TRUE]
GetOrdersReq == OrdReq("GET", 0)

\* What window.location.reload() leaves of the requests in flight: those the
\* server has yet to see still reach it, and no answer reaches a handler.
RECURSIVE Orphaned(_, _)
Orphaned(net, S) ==
    IF S = {} THEN EmptyBag
    ELSE LET r == CHOOSE x \in S : TRUE
         IN  (IF r.st = "sent" /\ r.op \in {"DELETE", "PUT"}
              THEN [q \in {[r EXCEPT !.live = FALSE]} |-> net[r]]
              ELSE EmptyBag) (+) Orphaned(net, S \ {r})

OrdServerAccept(r) ==
    /\ route = "orders"
    /\ r \in InFlight(ordNet)
    /\ r.st = "sent"
    /\ r.op \in {"DELETE", "PUT"} => ordSrv[r.id] # "none"
    /\ ordSrv' = CASE r.op = "DELETE" -> [ordSrv EXCEPT ![r.id] = "none"]
                    [] r.op = "PUT" -> [ordSrv EXCEPT ![r.id] = r.status]
                    [] OTHER -> ordSrv
    /\ ordNet' = IF r.live
                 THEN Swap(ordNet, r, [r EXCEPT !.st = "ok",
                                                !.data = IF r.op = "GET" THEN ordSrv ELSE NoOrders])
                 ELSE Take(ordNet, r)
    /\ ev' = NoEvent
    /\ UNCHANGED <<route, offOrd, mutLeft, ordUi>>

OrdServerRefuse(r) ==
    /\ route = "orders"
    /\ r \in InFlight(ordNet)
    /\ r.st = "sent"
    /\ ordNet' = IF r.live THEN Swap(ordNet, r, [r EXCEPT !.st = "fail"]) ELSE Take(ordNet, r)
    /\ ev' = NoEvent
    /\ UNCHANGED <<route, offOrd, mutLeft, ordSrv, ordUi>>

\* The order rows on screen, each with its ActionColumn.
OrderRows ==
    IF ordLoading \/ ordError THEN {} ELSE {id \in OrdIds : filteredOrders[id] # "none"}

\* fetchOrders up to its await (the mount effect, Refresh and Retry). The
\* table gives way to the spinner, and the rows' ActionColumn state with it.
fetchOrders ==
    /\ route = "orders"
    /\ ~ordLoading
    /\ ~showEditModal
    /\ ordLoading' = TRUE
    /\ ordError' = FALSE
    /\ isDeleting' = {}
    /\ ordNet' = Send(ordNet, GetOrdersReq)
    /\ ev' = NoEvent
    /\ UNCHANGED <<route, offOrd, mutLeft, ordSrv, orderList, filteredOrders, statusFilter,
                   editUi>>

\* The rest of fetchOrders, once the GET is answered.
fetchOrdersDone(r) ==
    /\ route = "orders"
    /\ r \in InFlight(ordNet)
    /\ r.op = "GET"
    /\ r.st # "sent"
    /\ IF r.st = "ok"
       THEN /\ orderList' = r.data
            /\ filteredOrders' = FilterOrders(statusFilter, r.data)
            /\ UNCHANGED ordError
       ELSE /\ ordError' = TRUE
            /\ UNCHANGED <<orderList, filteredOrders>>
    /\ ordLoading' = FALSE
    /\ ordNet' = Take(ordNet, r)
    /\ ev' = NoEvent
    /\ UNCHANGED <<route, offOrd, mutLeft, ordSrv, statusFilter, isDeleting, editUi>>

changeOrderStatusGroup(status) ==
    /\ route = "orders"
    /\ ~showEditModal
    /\ statusFilter' = status
    /\ filteredOrders' = FilterOrders(status, orderList)
    /\ isDeleting' = {id \in isDeleting : ~ordLoading /\ ~ordError
                                           /\ FilterOrders(status, orderList)[id] # "none"}
    /\ ev' = NoEvent
    /\ UNCHANGED <<route, offOrd, mutLeft, ordSrv, orderList, ordLoading, ordError, editUi,
                   ordNet>>

OrderDeleteReq(id) == OrdReq("DELETE", id)

\* ActionColumn.handleDelete up to its await. The button that calls it is
\* commented out of the JSX (lines 116-129); the action is the handler as
\* written, run for a row on screen.
ordHandleDelete(id, confirmed) ==
    /\ route = "orders"
    /\ id \in OrderRows
    /\ id \notin isDeleting
    /\ ~showEditModal
    /\ IF confirmed
       THEN /\ mutLeft > 0
            /\ mutLeft' = mutLeft - 1
            /\ isDeleting' = isDeleting \cup {id}
            /\ ordNet' = Send(ordNet, OrderDeleteReq(id))
       ELSE UNCHANGED <<mutLeft, isDeleting, ordNet>>
    /\ ev' = Event("orders", IF confirmed THEN id ELSE 0, confirmed)
    /\ UNCHANGED <<route, offOrd, ordSrv, orderList, filteredOrders, ordLoading, ordError,
                   statusFilter, editUi>>

\* The rest of handleDelete, once the DELETE is answered: on success
\* window.location.reload() loads the page anew, otherwise an alert and
\* isDeleting goes back to false (if the row is still mounted).
ordDeleteDone(r) ==
    /\ route = "orders"
    /\ r \in InFlight(ordNet)
    /\ r.op = "DELETE"
    /\ r.live
    /\ r.st # "sent"
    /\ IF r.st = "ok"
       THEN /\ orderList' = NoOrders
            /\ filteredOrders' = NoOrders
            /\ ordLoading' = TRUE
            /\ ordError' = FALSE
            /\ statusFilter' = "All"
            /\ isDeleting' = {}
            /\ showEditModal' = FALSE
            /\ editingOrder' = FALSE
            /\ editError' = ""
            /\ editSuccess' = ""
            /\ selectedOrder' = NoSelected
            /\ editFormData' = ""
            /\ editTimers' = EmptyBag
            /\ ordNet' = Send(Orphaned(ordNet, InFlight(Take(ordNet, r))), GetOrdersReq)
       ELSE /\ isDeleting' = isDeleting \ {r.id}
            /\ ordNet' = Take(ordNet, r)
            /\ UNCHANGED <<orderList, filteredOrders, ordLoading, ordError, statusFilter, editUi>>
    /\ ev' = NoEvent
    /\ UNCHANGED <<route, offOrd, mutLeft, ordSrv>>

\* --- The edit modal
\* The options of the modal's select.
EditOptions == {"Pending", "Processing", "Shipped", "Completed", "Cancelled"}
\* The modal's select.
handleEditFormChange(status) ==
    /\ route = "orders"
    /\ showEditModal
    /\ selectedOrder # NoSelected
    /\ ~editingOrder
    /\ editFormData' = status
    /\ ev' = NoEvent
    /\ UNCHANGED <<route, offOrd, mutLeft, ordSrv, orderList, filteredOrders, ordLoading, ordError,
                   statusFilter, isDeleting, showEditModal, editingOrder, editError, editSuccess,
                   selectedOrder, editTimers, ordNet>>

\* The ActionColumn's edit button of a row on screen.
handleEditOrder(id) ==
    /\ route = "orders"
    /\ id \in OrderRows
    /\ ~showEditModal
    /\ selectedOrder' = [id |-> id, status |-> filteredOrders[id]]
    /\ editFormData' = filteredOrders[id]
    /\ showEditModal' = TRUE
    /\ editError' = ""
    /\ editSuccess' = ""
    /\ ev' = NoEvent
    /\ UNCHANGED <<route, offOrd, mutLeft, ordSrv, orderList, filteredOrders, ordLoading, ordError,
                   statusFilter, isDeleting, editingOrder, editTimers, ordNet>>

\* What handleCloseEditModal sets.
CloseEditModal ==
    /\ showEditModal' = FALSE
    /\ selectedOrder' = NoSelected
    /\ editError' = ""
    /\ editSuccess' = ""

\* The modal's close button and onHide (Cancel is disabled while updating).
handleCloseEditModal ==
    /\ route = "orders"
    /\ showEditModal
    /\ CloseEditModal
    /\ ev' = NoEvent
    /\ UNCHANGED <<route, offOrd, mutLeft, ordSrv, orderList, filteredOrders, ordLoading, ordError,
                   statusFilter, isDeleting, editingOrder, editFormData, editTimers, ordNet>>

UpdateOrderReq(id, status) == [OrdReq("PUT", id) EXCEPT !.status = status]

\* handleUpdateOrder up to its await.
handleUpdateOrder ==
    /\ route = "orders"
    /\ showEditModal
    /\ ~editingOrder
    /\ editFormData # ""
    /\ selectedOrder # NoSelected
    /\ mutLeft > 0
    /\ mutLeft' = mutLeft - 1
    /\ editingOrder' = TRUE
    /\ editError' = ""
    /\ ordNet' = Send(ordNet, UpdateOrderReq(selectedOrder.id, editFormData))
    /\ ev' = NoEvent
    /\ UNCHANGED <<route, offOrd, ordSrv, orderList, filteredOrders, ordLoading, ordError,
                   statusFilter, isDeleting, showEditModal, editSuccess, selectedOrder,
                   editFormData, editTimers>>

\* setTimeout(() => handleCloseEditModal(), 1000), for the update of an order.
setEditTimeout(timers, id) == timers (+) SetToBag({id})

\* The rest of handleUpdateOrder, once the PUT is answered. The handler's
\* selectedOrder and editFormData are those of the render of the click.
handleUpdateOrderDone(r) ==
    /\ route = "orders"
    /\ r \in InFlight(ordNet)
    /\ r.op = "PUT"
    /\ r.live
    /\ r.st # "sent"
    /\ IF r.st = "ok"
       THEN /\ editSuccess' = "Order updated successfully!"
            /\ orderList' = [id \in OrdIds |->
                                IF id = r.id /\ orderList[id] # "none" THEN r.status
                                ELSE orderList[id]]
            /\ filteredOrders' = FilterOrders(statusFilter, orderList')
            /\ editTimers' = setEditTimeout(editTimers, r.id)
            /\ UNCHANGED editError
       ELSE /\ editError' = "Failed to update order"
            /\ UNCHANGED <<editSuccess, orderList, filteredOrders, editTimers>>
    /\ editingOrder' = FALSE
    /\ ordNet' = Take(ordNet, r)
    /\ ev' = NoEvent
    /\ UNCHANGED <<route, offOrd, mutLeft, ordSrv, ordLoading, ordError, statusFilter, isDeleting,
                   showEditModal, selectedOrder, editFormData>>

\* The timeout of the update of order id fires: handleCloseEditModal runs.
autoCloseEdit(id) ==
    /\ route = "orders"
    /\ BagIn(id, editTimers)
    /\ editTimers' = editTimers (-) SetToBag({id})
    /\ CloseEditModal
    /\ ev' = NoEvent
    /\ UNCHANGED <<route, offOrd, mutLeft, ordSrv, orderList, filteredOrders, ordLoading, ordError,
                   statusFilter, isDeleting, editingOrder, editFormData, ordNet>>

OrdUnmounted ==
    /\ ordSrv = NoOrders
    /\ orderList = NoOrders
    /\ filteredOrders = NoOrders
    /\ ordLoading = TRUE
    /\ ordError = FALSE
    /\ statusFilter = "All"
    /\ isDeleting = {}
    /\ EditClosed
    /\ ordNet = EmptyBag

OrdMounted ==
    /\ ordSrv \in {[id \in OrdIds |-> IF id <= k THEN OrderStatus(id) ELSE "none"] : k \in 0..MaxOrd}
    /\ orderList = NoOrders
    /\ filteredOrders = NoOrders
    /\ ordLoading = TRUE
    /\ ordError = FALSE
    /\ statusFilter = "All"
    /\ isDeleting = {}
    /\ EditClosed
    /\ ordNet = SetToBag({GetOrdersReq})

NextOrd ==
    \/ \E r \in InFlight(ordNet) : OrdServerAccept(r)
    \/ \E r \in InFlight(ordNet) : OrdServerRefuse(r)
    \/ fetchOrders
    \/ \E r \in InFlight(ordNet) : fetchOrdersDone(r)
    \/ \E status \in StatusFilters : changeOrderStatusGroup(status)
    \/ \E id \in OrdIds, confirmed \in BOOLEAN : ordHandleDelete(id, confirmed)
    \/ \E r \in InFlight(ordNet) : ordDeleteDone(r)

\* The list with its edit modal.
NextOrdEdit ==
    \/ NextOrd
    \/ \E id \in OrdIds : handleEditOrder(id)
    \/ handleCloseEditModal
    \/ \E status \in EditOptions : handleEditFormChange(status)
    \/ handleUpdateOrder
    \/ \E r \in InFlight(ordNet) : handleUpdateOrderDone(r)
    \/ \E id \in OrdIds : autoCloseEdit(id)

\* ----------------------------------------------------------------------
\* OrderDetails (src/src/pages/apps/Ecommerce/OrderDetails.jsx)
\* ----------------------------------------------------------------------
Statuses == {"Pending", "Processing", "Shipped", "Completed", "Cancelled"}
\* The statuses an order can have on the server: those the page can write,
\* "Delivered" (which the orders table colours), and one the client does not know.
StoredStatuses == Statuses \cup {"Delivered", "Refunded"}

\* by: the handler that issued the request; from: the status on screen then.
OdReq(op, by, status, from) ==
    [op |-> op, by |-> by, status |-> status, from |-> from, st |-> "sent", data |-> "null"]
GetOrderReq == OdReq("GET", "fetchOrderDetails", "", "")

OdServerAccept(r) ==
    /\ route = "orderDetails"
    /\ r \in InFlight(odNet)
    /\ r.st = "sent"
    /\ odSrv' = IF r.op = "PUT" THEN r.status ELSE odSrv
    /\ odNet' = Swap(odNet, r, [r EXCEPT !.st = "ok",
                                        !.data = IF r.op = "GET" THEN odSrv ELSE "null"])
    /\ ev' = NoEvent
    /\ UNCHANGED <<route, offOd, mutLeft, odUi>>

OdServerRefuse(r) ==
    /\ route = "orderDetails"
    /\ r \in InFlight(odNet)
    /\ r.st = "sent"
    /\ odNet' = Swap(odNet, r, [r EXCEPT !.st = "fail"])
    /\ ev' = NoEvent
    /\ UNCHANGED <<route, offOd, mutLeft, odSrv, odUi>>

\* The rest of fetchOrderDetails, once the GET is answered.
fetchOrderDetailsDone(r) ==
    /\ route = "orderDetails"
    /\ r \in InFlight(odNet)
    /\ r.op = "GET"
    /\ r.st # "sent"
    /\ IF r.st = "ok"
       THEN /\ order' = r.data
            /\ updateStatus' = r.data
            /\ UNCHANGED odError
       ELSE /\ odError' = TRUE
            /\ UNCHANGED <<order, updateStatus>>
    /\ odLoading' = FALSE
    /\ odNet' = Take(odNet, r)
    /\ ev' = NoEvent
    /\ UNCHANGED <<route, offOd, mutLeft, odSrv, showUpdateModal, updating, actionSuccess>>

\* The order page proper: past the loading, error and not-found returns.
OrderShown == ~odLoading /\ ~odError /\ order # "null"

\* The class of the status badge in the header of the page.
HeaderBadge ==
    BadgeClass(IF order = "Completed" THEN "success"
               ELSE IF order = "Processing" THEN "warning"
               ELSE IF order = "Shipped" THEN "info"
               ELSE IF order = "Cancelled" THEN "danger" ELSE "secondary")

\* The actions the footer of the page offers.
OfferedActions ==
    IF ~OrderShown THEN {}
    ELSE (IF order # "Cancelled" /\ order # "Completed" THEN {"Mark as Completed"} ELSE {})
         \cup (IF order # "Cancelled" THEN {"Cancel Order"} ELSE {})

openUpdateModal ==
    /\ route = "orderDetails"
    /\ OrderShown
    /\ ~showUpdateModal
    /\ showUpdateModal' = TRUE
    /\ ev' = NoEvent
    /\ UNCHANGED <<route, offOd, mutLeft, odSrv, order, odLoading, odError, updating,
                   updateStatus, actionSuccess, odNet>>

closeUpdateModal ==
    /\ route = "orderDetails"
    /\ OrderShown
    /\ showUpdateModal
    /\ showUpdateModal' = FALSE
    /\ ev' = NoEvent
    /\ UNCHANGED <<route, offOd, mutLeft, odSrv, order, odLoading, odError, updating,
                   updateStatus, actionSuccess, odNet>>

setUpdateStatus(value) ==
    /\ route = "orderDetails"
    /\ OrderShown
    /\ showUpdateModal
    /\ ~updating
    /\ updateStatus' = value
    /\ ev' = NoEvent
    /\ UNCHANGED <<route, offOd, mutLeft, odSrv, order, odLoading, odError, showUpdateModal,
                   updating, actionSuccess, odNet>>

setActionSuccessNull ==
    /\ route = "orderDetails"
    /\ OrderShown
    /\ ~showUpdateModal
    /\ actionSuccess # ""
    /\ actionSuccess' = ""
    /\ ev' = NoEvent
    /\ UNCHANGED <<route, offOd, mutLeft, odSrv, order, odLoading, odError, showUpdateModal,
                   updating, updateStatus, odNet>>

\* What the three handlers do once their PUT is answered: on success the
\* message and fetchOrderDetails up to its await, on failure the error; and
\* in both cases updating goes back to false.
PutAnswered(r, message, closesModal) ==
    /\ r \in InFlight(odNet)
    /\ r.op = "PUT"
    /\ r.st # "sent"
    /\ IF r.st = "ok"
       THEN /\ actionSuccess' = message
            /\ showUpdateModal' = IF closesModal THEN FALSE ELSE showUpdateModal
            /\ odLoading' = TRUE
            /\ odError' = FALSE
            /\ odNet' = Send(Take(odNet, r), GetOrderReq)
       ELSE /\ odError' = TRUE
            /\ odNet' = Take(odNet, r)
            /\ UNCHANGED <<actionSuccess, showUpdateModal, odLoading>>
    /\ updating' = FALSE
    /\ ev' = NoEvent
    /\ UNCHANGED <<route, offOd, mutLeft, odSrv, order, updateStatus>>

\* What the three handlers do up to their await.
PutIssued(by, status) ==
    /\ mutLeft > 0
    /\ mutLeft' = mutLeft - 1
    /\ updating' = TRUE
    /\ odNet' = Send(odNet, OdReq("PUT", by, status, order))
    /\ ev' = NoEvent
    /\ UNCHANGED <<route, offOd, odSrv, order, odLoading, odError, showUpdateModal,
                   updateStatus, actionSuccess>>

handleUpdateStatus ==
    /\ route = "orderDetails"
    /\ OrderShown
    /\ showUpdateModal
    /\ ~updating
    /\ updateStatus # order
    /\ updateStatus # ""
    /\ PutIssued("handleUpdateStatus", updateStatus)

handleUpdateStatusDone(r) ==
    /\ route = "orderDetails"
    /\ r.by = "handleUpdateStatus"
    /\ PutAnswered(r, "Order status updated successfully!", TRUE)

\* The prompt answered with OK; answered with Cancel the handler does nothing.
handleCancelOrder ==
    /\ route = "orderDetails"
    /\ "Cancel Order" \in OfferedActions
    /\ ~showUpdateModal
    /\ ~updating
    /\ PutIssued("handleCancelOrder", "Cancelled")

handleCancelOrderDone(r) ==
    /\ route = "orderDetails"
    /\ r.by = "handleCancelOrder"
    /\ PutAnswered(r, "Order cancelled successfully!", FALSE)

handleMarkCompleted ==
    /\ route = "orderDetails"
    /\ "Mark as Completed" \in OfferedActions
    /\ ~showUpdateModal
    /\ ~updating
    /\ PutIssued("handleMarkCompleted", "Completed")

handleMarkCompletedDone(r) ==
    /\ route = "orderDetails"
    /\ r.by = "handleMarkCompleted"
    /\ PutAnswered(r, "Order marked as completed!", FALSE)

OdUnmounted ==
    /\ odSrv = "null"
    /\ order = "null"
    /\ odLoading = TRUE
    /\ odError = FALSE
    /\ showUpdateModal = FALSE
    /\ updating = FALSE
    /\ updateStatus = ""
    /\ actionSuccess = ""
    /\ odNet = EmptyBag

OdMounted ==
    /\ odSrv \in StoredStatuses
    /\ order = "null"
    /\ odLoading = TRUE
    /\ odError = FALSE
    /\ showUpdateModal = FALSE
    /\ updating = FALSE
    /\ updateStatus = ""
    /\ actionSuccess = ""
    /\ odNet = SetToBag({GetOrderReq})

NextOd ==
    \/ \E r \in InFlight(odNet) : OdServerAccept(r)
    \/ \E r \in InFlight(odNet) : OdServerRefuse(r)
    \/ \E r \in InFlight(odNet) : fetchOrderDetailsDone(r)
    \/ openUpdateModal
    \/ closeUpdateModal
    \/ \E value \in Statuses : setUpdateStatus(value)
    \/ setActionSuccessNull
    \/ handleUpdateStatus
    \/ \E r \in InFlight(odNet) : handleUpdateStatusDone(r)
    \/ handleCancelOrder
    \/ \E r \in InFlight(odNet) : handleCancelOrderDone(r)
    \/ handleMarkCompleted
    \/ \E r \in InFlight(odNet) : handleMarkCompletedDone(r)

\* ----------------------------------------------------------------------
\* Inventory (src/src/pages/apps/Ecommerce/InventoryManagement.jsx)
\* ----------------------------------------------------------------------
itemsPerPage == 10
InvIds == 1..MaxInv
NoRecord == [id |-> 0, quantity_in_stock |-> 0, reorder_point |-> 0]
Record(id, quantity, reorder) ==
    [id |-> id, quantity_in_stock |-> quantity, reorder_point |-> reorder]
\* The records the server starts with: stock below, at and above the reorder point.
InitRecord(id) == Record(id, 9 + (id % 3), 10)
\* What the user types into the form.
QuantityValues == {9, 10}
ReorderValues == {10}

\* Math.ceil(n / d) for n >= 0, d > 0.
Ceil(n, d) == (n + d - 1) \div d

\* The server's answer to GET /inventory, in id order.
RECURSIVE InventoryList(_, _)
InventoryList(srv, S) ==
    IF S = {} THEN <<>>
    ELSE LET m == CHOOSE x \in S : \A y \in S : x <= y
         IN  (IF srv[m] = NoRecord THEN <<>> ELSE <<srv[m]>>) \o InventoryList(srv, S \ {m})
\* The server's answer to GET /inventory/low-stock.
LowStockList(srv) == {id \in InvIds : srv[id] # NoRecord
                                       /\ srv[id].quantity_in_stock < srv[id].reorder_point}

InvReq(op, id, quantity, reorder) ==
    [op |-> op, id |-> id, quantity |-> quantity, reorder |-> reorder, st |-> "sent",
     data |-> <<>>, low |-> {}]
GetInventoryReq == InvReq("GET", 0, 0, 0)
GetLowStockReq == InvReq("LOW", 0, 0, 0)
InvFetches(net) == {r \in InFlight(net) : r.op \in {"GET", "LOW"}}

InvServerCanAccept(r) ==
    CASE r.op = "POST" -> invSrvNext <= MaxInv
      [] r.op \in {"PUT", "DELETE"} -> invSrv[r.id] # NoRecord
      [] OTHER -> TRUE

InvServerApply(r) ==
    CASE r.op = "POST" -> [invSrv EXCEPT ![invSrvNext] = Record(invSrvNext, r.quantity, r.reorder)]
      [] r.op = "PUT" -> [invSrv EXCEPT ![r.id] = Record(r.id, r.quantity, r.reorder)]
      [] r.op = "DELETE" -> [invSrv EXCEPT ![r.id] = NoRecord]
      [] OTHER -> invSrv

InvServerAccept(r) ==
    /\ route = "inventory"
    /\ r \in InFlight(invNet)
    /\ r.st = "sent"
    /\ InvServerCanAccept(r)
    /\ invSrv' = InvServerApply(r)
    /\ invSrvNext' = IF r.op = "POST" THEN invSrvNext + 1 ELSE invSrvNext
    /\ invNet' = Swap(invNet, r,
                      [r EXCEPT !.st = "ok",
                                !.data = IF r.op = "GET" THEN InventoryList(invSrv, InvIds) ELSE <<>>,
                                !.low = IF r.op = "LOW" THEN LowStockList(invSrv) ELSE {}])
    /\ ev' = NoEvent
    /\ UNCHANGED <<route, offInv, mutLeft, invUi>>

\* "fail": a non-2xx answer; "throw": no answer or an unreadable one;
\* "nodata": a 2xx answer that carries no inventory array.
InvRefusals(r) ==
    CASE r.op = "GET" -> {"fail", "nodata"}
      [] r.op = "LOW" -> {"fail", "throw"}
      [] OTHER -> {"fail"}

InvServerRefuse(r) ==
    /\ route = "inventory"
    /\ r \in InFlight(invNet)
    /\ r.st = "sent"
    /\ \E st \in InvRefusals(r) : invNet' = Swap(invNet, r, [r EXCEPT !.st = st])
    /\ ev' = NoEvent
    /\ UNCHANGED <<route, offInv, mutLeft, invSrv, invSrvNext, invUi>>

\* fetchInventoryData up to its first await.
fetchInventoryData(net) == Send(net, GetInventoryReq)

\* fetchInventoryData from the answer of GET /inventory to its second await,
\* or through catch and finally when the GET failed.
fetchInventoryGot(r) ==
    /\ route = "inventory"
    /\ r \in InFlight(invNet)
    /\ r.op = "GET"
    /\ r.st # "sent"
    /\ inventory' = IF r.st = "ok" THEN r.data ELSE <<>>
    /\ totalPages' = IF r.st = "ok" THEN Ceil(Len(r.data), itemsPerPage) ELSE 1
    /\ IF r.st = "fail"
       THEN /\ invSubmitStatus' = "danger"
            /\ invIsLoading' = FALSE
            /\ invNet' = Take(invNet, r)
       ELSE /\ invNet' = Swap(invNet, r, GetLowStockReq)
            /\ UNCHANGED <<invSubmitStatus, invIsLoading>>
    /\ ev' = NoEvent
    /\ UNCHANGED <<route, offInv, mutLeft, invSrv, invSrvNext, lowStockItems, modalShow,
                   isEditing, currentInventory, invIsSubmitting, currentPage>>

\* The rest of fetchInventoryData, once GET /inventory/low-stock is answered.
fetchLowStockGot(r) ==
    /\ route = "inventory"
    /\ r \in InFlight(invNet)
    /\ r.op = "LOW"
    /\ r.st # "sent"
    /\ IF r.st = "throw"
       THEN /\ invSubmitStatus' = "danger"
            /\ inventory' = <<>>
            /\ totalPages' = 1
            /\ UNCHANGED lowStockItems
       ELSE /\ lowStockItems' = IF r.st = "ok" THEN r.low ELSE {}
            /\ UNCHANGED <<invSubmitStatus, inventory, totalPages>>
    /\ invIsLoading' = FALSE
    /\ invNet' = Take(invNet, r)
    /\ ev' = NoEvent
    /\ UNCHANGED <<route, offInv, mutLeft, invSrv, invSrvNext, modalShow, isEditing,
                   currentInventory, invIsSubmitting, currentPage>>

getCurrentInventory ==
    LET startIndex == (currentPage - 1) * itemsPerPage
        endIndex == startIndex + itemsPerPage
    IN  SubSeq(inventory, startIndex + 1,
               IF endIndex < Len(inventory) THEN endIndex ELSE Len(inventory))

\* A record that is low when stock only equals the reorder point.
isLowOrEqual(item) == item.quantity_in_stock <= item.reorder_point
isLowStock(item) == item.quantity_in_stock < item.reorder_point

\* The rows of the table, each with the badge of its Status column.
InventoryRows ==
    IF invIsLoading \/ Len(inventory) = 0 THEN {}
    ELSE {[item |-> getCurrentInventory[i],
           badge |-> IF isLowStock(getCurrentInventory[i]) THEN "LOW" ELSE "OK"] :
             i \in 1..Len(getCurrentInventory)}

\* The page numbers the pagination controls pass to handlePageChange: Prev
\* (disabled on page 1), the numbered items, Next (disabled on the last page).
renderPaginationItems ==
    IF invIsLoading \/ Len(inventory) = 0 \/ ~(totalPages > 1) THEN {}
    ELSE (IF currentPage = 1 THEN {} ELSE {currentPage - 1})
         \cup (1..totalPages)
         \cup (IF currentPage = totalPages THEN {} ELSE {currentPage + 1})

handlePageChange(pageNumber) ==
    /\ route = "inventory"
    /\ ~modalShow
    /\ pageNumber \in renderPaginationItems
    /\ currentPage' = pageNumber
    /\ ev' = NoEvent
    /\ UNCHANGED <<route, offInv, mutLeft, invSrv, invSrvNext, inventory, lowStockItems,
                   invIsLoading, invSubmitStatus, modalShow, isEditing, currentInventory,
                   invIsSubmitting, totalPages, invNet>>

openAddModal ==
    /\ route = "inventory"
    /\ ~modalShow
    /\ isEditing' = FALSE
    /\ currentInventory' = 0
    /\ modalShow' = TRUE
    /\ ev' = NoEvent
    /\ UNCHANGED <<route, offInv, mutLeft, invSrv, invSrvNext, inventory, lowStockItems,
                   invIsLoading, invSubmitStatus, invIsSubmitting, currentPage, totalPages,
                   invNet>>

openEditModal(item) ==
    /\ route = "inventory"
    /\ ~modalShow
    /\ \E row \in InventoryRows : row.item = item
    /\ isEditing' = TRUE
    /\ currentInventory' = item.id
    /\ modalShow' = TRUE
    /\ ev' = NoEvent
    /\ UNCHANGED <<route, offInv, mutLeft, invSrv, invSrvNext, inventory, lowStockItems,
                   invIsLoading, invSubmitStatus, invIsSubmitting, currentPage, totalPages,
                   invNet>>

handleModalClose ==
    /\ route = "inventory"
    /\ modalShow
    /\ modalShow' = FALSE
    /\ invSubmitStatus' = ""
    /\ ev' = NoEvent
    /\ UNCHANGED <<route, offInv, mutLeft, invSrv, invSrvNext, inventory, lowStockItems,
                   invIsLoading, isEditing, currentInventory, invIsSubmitting, currentPage,
                   totalPages, invNet>>

\* onSubmit up to its await: PUT for an edit, POST otherwise.
onSubmit(quantity, reorder) ==
    /\ route = "inventory"
    /\ modalShow
    /\ ~invIsSubmitting
    /\ mutLeft > 0
    /\ mutLeft' = mutLeft - 1
    /\ invIsSubmitting' = TRUE
    /\ invSubmitStatus' = ""
    /\ invNet' = Send(invNet, IF isEditing /\ currentInventory # 0
                              THEN InvReq("PUT", currentInventory, quantity, reorder)
                              ELSE InvReq("POST", 0, quantity, reorder))
    /\ ev' = NoEvent
    /\ UNCHANGED <<route, offInv, invSrv, invSrvNext, inventory, lowStockItems, invIsLoading,
                   modalShow, isEditing, currentInventory, currentPage, totalPages>>

\* The rest of onSubmit: on success the success message, fetchInventoryData up
\* to its await (which clears the message) and handleModalClose.
onSubmitDone(r) ==
    /\ route = "inventory"
    /\ r \in InFlight(invNet)
    /\ r.op \in {"POST", "PUT"}
    /\ r.st # "sent"
    /\ IF r.st = "ok"
       THEN /\ invSubmitStatus' = ""
            /\ invIsLoading' = TRUE
            /\ modalShow' = FALSE
            /\ invNet' = fetchInventoryData(Take(invNet, r))
       ELSE /\ invSubmitStatus' = "danger"
            /\ invNet' = Take(invNet, r)
            /\ UNCHANGED <<invIsLoading, modalShow>>
    /\ invIsSubmitting' = FALSE
    /\ ev' = NoEvent
    /\ UNCHANGED <<route, offInv, mutLeft, invSrv, invSrvNext, inventory, lowStockItems,
                   isEditing, currentInventory, currentPage, totalPages>>

\* handleDelete up to its await, the prompt answered with OK (answered with
\* Cancel the handler returns at once).
invHandleDelete(inventoryId) ==
    /\ route = "inventory"
    /\ ~modalShow
    /\ \E row \in InventoryRows : row.item.id = inventoryId
    /\ mutLeft > 0
    /\ mutLeft' = mutLeft - 1
    /\ invSubmitStatus' = ""
    /\ invNet' = Send(invNet, InvReq("DELETE", inventoryId, 0, 0))
    /\ ev' = NoEvent
    /\ UNCHANGED <<route, offInv, invSrv, invSrvNext, inventory, lowStockItems, invIsLoading,
                   modalShow, isEditing, currentInventory, invIsSubmitting, currentPage,
                   totalPages>>

\* The rest of handleDelete.
invDeleteDone(r) ==
    /\ route = "inventory"
    /\ r \in InFlight(invNet)
    /\ r.op = "DELETE"
    /\ r.st # "sent"
    /\ IF r.st = "ok"
       THEN /\ invSubmitStatus' = ""
            /\ invIsLoading' = TRUE
            /\ invNet' = fetchInventoryData(Take(invNet, r))
       ELSE /\ invSubmitStatus' = "danger"
            /\ invNet' = Take(invNet, r)
            /\ UNCHANGED invIsLoading
    /\ ev' = NoEvent
    /\ UNCHANGED <<route, offInv, mutLeft, invSrv, invSrvNext, inventory, lowStockItems,
                   modalShow, isEditing, currentInventory, invIsSubmitting, currentPage,
                   totalPages>>

InvUnmounted ==
    /\ invSrv = [id \in InvIds |-> NoRecord]
    /\ invSrvNext = 1
    /\ inventory = <<>>
    /\ lowStockItems = {}
    /\ invIsLoading = TRUE
    /\ invSubmitStatus = ""
    /\ modalShow = FALSE
    /\ isEditing = FALSE
    /\ currentInventory = 0
    /\ invIsSubmitting = FALSE
    /\ currentPage = 1
    /\ totalPages = 1
    /\ invNet = EmptyBag

InvMounted ==
    /\ \E k \in 0..MaxInv :
          /\ invSrv = [id \in InvIds |-> IF id <= k THEN InitRecord(id) ELSE NoRecord]
          /\ invSrvNext = k + 1
    /\ inventory = <<>>
    /\ lowStockItems = {}
    /\ invIsLoading = TRUE
    /\ invSubmitStatus = ""
    /\ modalShow = FALSE
    /\ isEditing = FALSE
    /\ currentInventory = 0
    /\ invIsSubmitting = FALSE
    /\ currentPage = 1
    /\ totalPages = 1
    /\ invNet = fetchInventoryData(EmptyBag)

NextInv ==
    \/ \E r \in InFlight(invNet) : InvServerAccept(r)
    \/ \E r \in InFlight(invNet) : InvServerRefuse(r)
    \/ \E r \in InFlight(invNet) : fetchInventoryGot(r)
    \/ \E r \in InFlight(invNet) : fetchLowStockGot(r)
    \/ \E pageNumber \in 0..(MaxInv + 1) : handlePageChange(pageNumber)
    \/ openAddModal
    \/ \E row \in InventoryRows : openEditModal(row.item)
    \/ handleModalClose
    \/ \E quantity \in QuantityValues, reorder \in ReorderValues : onSubmit(quantity, reorder)
    \/ \E r \in InFlight(invNet) : onSubmitDone(r)
    \/ \E id \in InvIds : invHandleDelete(id)
    \/ \E r \in InFlight(invNet) : invDeleteDone(r)

\* ----------------------------------------------------------------------
\* ProductEdit (src/src/pages/apps/Ecommerce/ProductEdit.jsx)
\* ----------------------------------------------------------------------
\* Text is a sequence of characters. A number is a count of hundredths (the
\* schema's smallest price is 0.01), or NaN.
Num(v) == [nan |-> FALSE, v |-> v]
NaN == [nan |-> TRUE, v |-> 0]
DigitChars == <<"0", "1", "2", "3", "4", "5", "6", "7", "8", "9">>
IsDigit(c) == \E d \in 0..9 : DigitChars[d + 1] = c
DigitOf(c) == CHOOSE d \in 0..9 : DigitChars[d + 1] = c

RECURSIVE IntOf(_)
IntOf(text) ==
    IF text = <<>> THEN 0
    ELSE 10 * IntOf(SubSeq(text, 1, Len(text) - 1)) + DigitOf(text[Len(text)])

\* The value of an unsigned decimal literal, to its second decimal.
Unsigned(text) ==
    LET dots == {i \in 1..Len(text) : text[i] = "."}
        dot == IF dots = {} THEN Len(text) + 1 ELSE CHOOSE i \in dots : \A j \in dots : i <= j
        whole == SubSeq(text, 1, dot - 1)
        frac == SubSeq(text, dot + 1, Len(text))
        tenths == IF Len(frac) >= 1 THEN DigitOf(frac[1]) ELSE 0
        hundredths == IF Len(frac) >= 2 THEN DigitOf(frac[2]) ELSE 0
    IN  IF \/ whole = <<>> /\ frac = <<>>
           \/ \E i \in 1..Len(whole) : ~IsDigit(whole[i])
           \/ \E i \in 1..Len(frac) : ~IsDigit(frac[i])
        THEN NaN
        ELSE Num(100 * IntOf(whole) + 10 * tenths + hundredths)

\* The number a decimal text denotes.
ToNumber(text) ==
    IF text = <<>> THEN NaN
    ELSE IF Head(text) = "-"
         THEN LET u == Unsigned(Tail(text)) IN IF u.nan THEN NaN ELSE Num(0 - u.v)
         ELSE Unsigned(text)

\* parseInt in the place of parseFloat: the fraction is dropped.
parseInt(text) ==
    LET n == ToNumber(text)
    IN  IF n.nan THEN NaN
        ELSE IF n.v >= 0 THEN Num(100 * (n.v \div 100)) ELSE Num(0 - 100 * ((0 - n.v) \div 100))

parseFloat(text) == ToNumber(text)

\* The cast of yup.number(): the value of the input's text, NaN for "".
yupNumber(text) == ToNumber(text)

RECURSIVE NatToText(_)
NatToText(n) ==
    IF n < 10 THEN <<DigitChars[n + 1]>>
    ELSE Append(NatToText(n \div 10), DigitChars[(n % 10) + 1])

\* String(number), what FormData.append and an input make of a number.
NumberToString(n) ==
    IF n.nan THEN <<"N", "a", "N">>
    ELSE LET a == IF n.v < 0 THEN 0 - n.v ELSE n.v
             tenths == (a % 100) \div 10
             hundredths == a % 10
         IN  (IF n.v < 0 THEN <<"-">> ELSE <<>>)
             \o NatToText(a \div 100)
             \o (IF a % 100 = 0 THEN <<>>
                 ELSE <<".", DigitChars[tenths + 1]>>
                      \o (IF hundredths = 0 THEN <<>> ELSE <<DigitChars[hundredths + 1]>>))

\* The route: /products/edit/:productId or /products/add.
ProductIds == {0, 1}
peIsEditing == peProductId # 0

\* What the user types and picks.
NameTexts == {<<>>, <<"x">>}
PriceTexts == {<<"0">>, <<"7">>, <<"1", "2", ".", "5", "0">>}
StockTexts == {<<"0">>, <<"-", "1">>, <<"1", ".", "5">>}
CategoryIds == {<<"1">>}
Files == {<<>>, <<"a.png">>}
FieldNames == {"name", "description", "long_description", "price", "stock_quantity",
               "category_id"}

defaultValues ==
    [name |-> <<>>, description |-> <<>>, long_description |-> <<>>, price |-> <<"0">>,
     stock_quantity |-> <<"0">>, category_id |-> <<>>, image |-> <<>>]

\* A product as the server returns it; id 0 stands for null.
NullProduct ==
    [id |-> 0, name |-> <<>>, description |-> <<>>, long_description |-> <<>>,
     base_price |-> <<>>, base_stock |-> <<>>, category_id |-> <<>>, image_url |-> <<>>]
StoredProduct(id) ==
    [id |-> id, name |-> <<"x">>, description |-> <<"x">>, long_description |-> <<"x">>,
     base_price |-> <<"1", "2", ".", "5", "0">>, base_stock |-> <<"0">>,
     category_id |-> <<"1">>, image_url |-> <<"/a.png">>]

NoMessage == [message |-> <<>>, variant |-> ""]
NoBody == [k \in {} |-> <<>>]
NoAnswer == [product |-> NullProduct, categories |-> {}, text |-> ""]

\* data: the values onSubmit was called with (its price, a number).
PeReq(op, id, body, data) ==
    [op |-> op, id |-> id, body |-> body, data |-> data, st |-> "sent", resp |-> NoAnswer]
GetCategoriesReq == PeReq("GETCATEGORIES", 0, NoBody, NaN)
GetProductReq == PeReq("GETPRODUCT", peProductId, NoBody, NaN)
Submits(net) == {r \in InFlight(net) : r.op \in {"PUT", "POST"}}

\* The product the server holds once it has taken a body in.
Stored(r) ==
    [id |-> IF r.op = "PUT" THEN r.id ELSE 1,
     name |-> r.body["name"], description |-> r.body["description"],
     long_description |-> r.body["long_description"],
     base_price |-> r.body["price"], base_stock |-> r.body["stock_quantity"],
     category_id |-> r.body["category_id"],
     image_url |-> IF "image" \in DOMAIN r.body THEN <<"/">> \o r.body["image"]
                   ELSE peSrv.product.image_url]

PeServerAccept(r) ==
    /\ route = "productEdit"
    /\ r \in InFlight(peNet)
    /\ r.st = "sent"
    /\ r.op = "GETPRODUCT" => peSrv.product.id # 0
    /\ peSrv' = IF r.op \in {"PUT", "POST"}
                THEN [product |-> Stored(r), written |-> r.data]
                ELSE peSrv
    /\ peNet' = Swap(peNet, r,
                     [r EXCEPT !.st = "ok",
                               !.resp = [product |-> IF r.op = "GETPRODUCT" THEN peSrv.product
                                                     ELSE NullProduct,
                                         categories |-> IF r.op = "GETCATEGORIES"
                                                        THEN CategoryIds ELSE {},
                                         text |-> ""]])
    /\ ev' = NoEvent
    /\ UNCHANGED <<route, offPe, mutLeft, peProductId, peUi>>

\* The server answers with a status that is not 2xx and a text.
PeServerRefuse(r) ==
    /\ route = "productEdit"
    /\ r \in InFlight(peNet)
    /\ r.st = "sent"
    /\ peNet' = Swap(peNet, r, [r EXCEPT !.st = "fail", !.resp.text = "Endpoint Not Found."])
    /\ ev' = NoEvent
    /\ UNCHANGED <<route, offPe, mutLeft, peProductId, peSrv, peUi>>

\* fetch rejects: the request never got an answer.
PeFetchThrows(r) ==
    /\ route = "productEdit"
    /\ r \in InFlight(peNet)
    /\ r.st = "sent"
    /\ peNet' = Swap(peNet, r, [r EXCEPT !.st = "throw"])
    /\ ev' = NoEvent
    /\ UNCHANGED <<route, offPe, mutLeft, peProductId, peSrv, peUi>>

\* The rest of fetchCategories, once GET /products is answered.
fetchCategoriesDone(r) ==
    /\ route = "productEdit"
    /\ r \in InFlight(peNet)
    /\ r.op = "GETCATEGORIES"
    /\ r.st # "sent"
    /\ IF r.st = "ok"
       THEN /\ categories' = r.resp.categories
            /\ UNCHANGED peError
       ELSE /\ peError' = "Failed to fetch categories. Please try again later."
            /\ UNCHANGED categories
    /\ peIsLoading' = FALSE
    /\ peNet' = Take(peNet, r)
    /\ ev' = NoEvent
    /\ UNCHANGED <<route, offPe, mutLeft, peProductId, peSrv, isProductLoading, productData,
                   peIsSubmitting, peSubmitStatus, previewImage, formValues>>

\* parseFloat(product.base_price) || 0
PriceOf(base_price) ==
    LET n == parseFloat(base_price) IN IF n.nan \/ n.v = 0 THEN Num(0) ELSE n

\* The values reset() is given for a fetched product: base_price and
\* base_stock become price and stock_quantity; the file input is left empty.
ResetValues(product) ==
    [name |-> product.name,
     description |-> product.description,
     long_description |-> product.long_description,
     price |-> NumberToString(PriceOf(product.base_price)),
     stock_quantity |-> IF product.base_stock = <<>> THEN <<"0">> ELSE product.base_stock,
     category_id |-> product.category_id,
     image |-> <<>>]

NoPreview == <<>>
ServerImage(image_url) == <<"https://ecomm.braventra.in">> \o image_url
ObjectURL(file) == <<"blob:">> \o file

\* The rest of fetchProductData, once GET /products/:productId is answered.
fetchProductDataDone(r) ==
    /\ route = "productEdit"
    /\ r \in InFlight(peNet)
    /\ r.op = "GETPRODUCT"
    /\ r.st # "sent"
    /\ IF r.st = "ok"
       THEN /\ formValues' = ResetValues(r.resp.product)
            /\ previewImage' = IF r.resp.product.image_url # <<>>
                               THEN ServerImage(r.resp.product.image_url)
                               ELSE previewImage
            /\ productData' = r.resp.product
            /\ UNCHANGED peError
       ELSE /\ peError' = "Failed to load existing product data"
            /\ UNCHANGED <<formValues, previewImage, productData>>
    /\ isProductLoading' = FALSE
    /\ peNet' = Take(peNet, r)
    /\ ev' = NoEvent
    /\ UNCHANGED <<route, offPe, mutLeft, peProductId, peSrv, categories, peIsLoading,
                   peIsSubmitting, peSubmitStatus>>

\* The form is on screen: past the spinner and the load-error returns.
FormRendered ==
    /\ ~(peIsLoading \/ isProductLoading)
    /\ ~(peError # "null" /\ peSubmitStatus.message = <<>>)

\* The user changes one of the registered inputs.
setValue(field, value) ==
    /\ route = "productEdit"
    /\ FormRendered
    /\ formValues' = [formValues EXCEPT ![field] = value]
    /\ ev' = NoEvent
    /\ UNCHANGED <<route, offPe, mutLeft, peProductId, peSrv, categories, peIsLoading,
                   isProductLoading, productData, peIsSubmitting, peSubmitStatus, peError,
                   previewImage, peNet>>

\* The user picks a file, or empties the file input.
handleImageChange(file) ==
    /\ route = "productEdit"
    /\ FormRendered
    /\ formValues' = [formValues EXCEPT !.image = file]
    /\ previewImage' = IF file # <<>> THEN ObjectURL(file)
                       ELSE IF productData.id # 0 /\ productData.image_url # <<>>
                            THEN ServerImage(productData.image_url)
                            ELSE NoPreview
    /\ ev' = NoEvent
    /\ UNCHANGED <<route, offPe, mutLeft, peProductId, peSrv, categories, peIsLoading,
                   isProductLoading, productData, peIsSubmitting, peSubmitStatus, peError,
                   peNet>>

\* The fields the schema rejects.
FieldErrors(values) ==
    {f \in {"name", "description", "long_description", "category_id"} : values[f] = <<>>}
    \cup (LET price == yupNumber(values.price)
          IN  IF price.nan \/ price.v < 1 THEN {"price"} ELSE {})
    \cup (LET stock == yupNumber(values.stock_quantity)
          IN  IF stock.nan \/ stock.v % 100 # 0 \/ stock.v < 0 THEN {"stock_quantity"} ELSE {})
    \cup (IF peIsEditing \/ Len(values.image) > 0 THEN {} ELSE {"image"})

\* The values the resolver hands onSubmit: the numbers cast.
CastValues(values) ==
    [values EXCEPT !.price = yupNumber(values.price),
                   !.stock_quantity = yupNumber(values.stock_quantity)]

\* The FormData without its file.
FormDataNoImage(data) ==
    LET keys == FieldNames
                \cup (IF peIsEditing /\ productData.id # 0 /\ productData.image_url # <<>>
                      THEN {"old_image_url"} ELSE {})
    IN  [k \in keys |->
            CASE k = "price" -> NumberToString(data.price)
              [] k = "stock_quantity" -> NumberToString(data.stock_quantity)
              [] k = "old_image_url" -> productData.image_url
              [] OTHER -> data[k]]

\* The FormData onSubmit builds.
FormDataOf(data) ==
    LET keys == FieldNames
                \cup (IF data.image # <<>> THEN {"image"} ELSE {})
                \cup (IF peIsEditing /\ productData.id # 0 /\ productData.image_url # <<>>
                      THEN {"old_image_url"} ELSE {})
    IN  [k \in keys |->
            CASE k = "price" -> NumberToString(data.price)
              [] k = "stock_quantity" -> NumberToString(data.stock_quantity)
              [] k = "image" -> <<data.image[1]>>
              [] k = "old_image_url" -> productData.image_url
              [] OTHER -> data[k]]

AlwaysPost == "POST"
Method == IF peIsEditing THEN "PUT" ELSE "POST"

SubmitRequest(data) ==
    PeReq(Method, IF peIsEditing THEN peProductId ELSE 0, FormDataOf(data), data.price)

\* Validation lets every submit through.
NoValidation(values) == {}
\* What handleSubmit does of the fields the resolver rejects.
Blocking(values) == FieldErrors(values)

\* handleSubmit(onSubmit): the resolver, then onSubmit up to its await.
handleSubmit ==
    /\ route = "productEdit"
    /\ FormRendered
    /\ ~peIsSubmitting
    /\ IF Blocking(formValues) # {}
       THEN UNCHANGED <<mutLeft, peIsSubmitting, peSubmitStatus, peError, peNet>>
       ELSE /\ mutLeft > 0
            /\ mutLeft' = mutLeft - 1
            /\ peIsSubmitting' = TRUE
            /\ peSubmitStatus' = NoMessage
            /\ peError' = "null"
            /\ peNet' = Send(peNet, SubmitRequest(CastValues(formValues)))
    /\ ev' = Event("productEdit", peProductId, FieldErrors(formValues) = {})
    /\ UNCHANGED <<route, offPe, peProductId, peSrv, categories, peIsLoading, isProductLoading,
                   productData, previewImage, formValues>>

\* error.message of what onSubmit's try block throws.
ErrorMessage(r) ==
    IF r.st = "fail" THEN <<"Server returned status 404. Error: ", r.resp.text>>
    ELSE <<"Failed to fetch">>

\* The banner of a failure, without the error's message.
BareFailure(r) ==
    [message |-> <<"Failed to ", IF peIsEditing THEN "update" ELSE "add", " product: ">>,
     variant |-> "danger"]
FailureBanner(r) ==
    [message |-> <<"Failed to ", IF peIsEditing THEN "update" ELSE "add", " product: ">>
                 \o ErrorMessage(r),
     variant |-> "danger"]

\* reset() of the edit form: nothing is cleared.
KeepValues == formValues
\* reset() of the create form.
ClearedValues == defaultValues

\* The rest of onSubmit, once the PUT or POST is answered.
peOnSubmitDone(r) ==
    /\ route = "productEdit"
    /\ r \in Submits(peNet)
    /\ r.st # "sent"
    /\ IF r.st = "ok"
       THEN /\ peSubmitStatus' =
                  [message |-> <<IF peIsEditing THEN "Product updated successfully!"
                                 ELSE "Product added successfully!">>,
                   variant |-> "success"]
            /\ IF ~peIsEditing
               THEN /\ formValues' = ClearedValues
                    /\ previewImage' = NoPreview
               ELSE UNCHANGED <<formValues, previewImage>>
       ELSE /\ peSubmitStatus' = FailureBanner(r)
            /\ UNCHANGED <<formValues, previewImage>>
    /\ peIsSubmitting' = FALSE
    /\ peNet' = Take(peNet, r)
    /\ ev' = NoEvent
    /\ UNCHANGED <<route, offPe, mutLeft, peProductId, peSrv, categories, peIsLoading,
                   isProductLoading, productData, peError>>

PeUnmounted ==
    /\ peProductId = 0
    /\ peSrv = [product |-> NullProduct, written |-> NaN]
    /\ categories = {}
    /\ peIsLoading = TRUE
    /\ isProductLoading = FALSE
    /\ productData = NullProduct
    /\ peIsSubmitting = FALSE
    /\ peSubmitStatus = NoMessage
    /\ peError = "null"
    /\ previewImage = NoPreview
    /\ formValues = defaultValues
    /\ peNet = EmptyBag

\* The component's state at mount, its two effects started.
PeMountedUi ==
    /\ categories = {}
    /\ peIsLoading = TRUE
    /\ isProductLoading = peIsEditing
    /\ productData = NullProduct
    /\ peIsSubmitting = FALSE
    /\ peSubmitStatus = NoMessage
    /\ peError = "null"
    /\ previewImage = NoPreview
    /\ formValues = defaultValues
    /\ peNet = SetToBag({GetCategoriesReq} \cup (IF peIsEditing THEN {GetProductReq} ELSE {}))

PeMounted ==
    /\ peProductId \in ProductIds
    /\ peSrv = [product |-> IF peIsEditing THEN StoredProduct(peProductId) ELSE NullProduct,
                written |-> NaN]
    /\ PeMountedUi

\* The user leaves the settled page and opens it again.
peOpenAgain ==
    /\ route = "productEdit"
    /\ peNet = EmptyBag
    /\ categories' = {}
    /\ peIsLoading' = TRUE
    /\ isProductLoading' = peIsEditing
    /\ productData' = NullProduct
    /\ peIsSubmitting' = FALSE
    /\ peSubmitStatus' = NoMessage
    /\ peError' = "null"
    /\ previewImage' = NoPreview
    /\ formValues' = defaultValues
    /\ peNet' = SetToBag({GetCategoriesReq} \cup (IF peIsEditing THEN {GetProductReq} ELSE {}))
    /\ ev' = NoEvent
    /\ UNCHANGED <<route, offPe, mutLeft, peProductId, peSrv>>

NextPe ==
    \/ \E r \in InFlight(peNet) : PeServerAccept(r)
    \/ \E r \in InFlight(peNet) : PeServerRefuse(r)
    \/ \E r \in InFlight(peNet) : PeFetchThrows(r)
    \/ \E r \in InFlight(peNet) : fetchCategoriesDone(r)
    \/ \E r \in InFlight(peNet) : fetchProductDataDone(r)
    \/ \E value \in NameTexts : setValue("name", value)
    \/ \E value \in NameTexts : setValue("description", value)
    \/ \E value \in NameTexts : setValue("long_description", value)
    \/ \E value \in PriceTexts : setValue("price", value)
    \/ \E value \in StockTexts : setValue("stock_quantity", value)
    \/ \E value \in {<<>>} \cup categories : setValue("category_id", value)
    \/ \E file \in Files : handleImageChange(file)
    \/ handleSubmit
    \/ \E r \in InFlight(peNet) : peOnSubmitDone(r)
    \/ peOpenAgain

\* ----------------------------------------------------------------------
\* Session store (src/unnamed/part_000) and PrivateRoute (Products.jsx 553-586)
\* ----------------------------------------------------------------------
\* A value is undefined or a user record; a record may lack the role field.
Undefined == [defined |-> FALSE, role |-> "undefined"]
RoleNames == {"admin", "manager", "user"}
UserValues == [defined : {TRUE}, role : RoleNames \cup {"undefined"}]

\* The roles prop: not given, or a list of role names.
NoRoles == [given |-> FALSE, list |-> {}]
RolesProps == {NoRoles} \cup [given : {TRUE}, list : SUBSET RoleNames]

LoginPath == "/auth/login"
ProductsPath == "/apps/ecommerce/products"
OrdersPath == "/apps/ecommerce/orders"
InventoryPath == "/apps/ecommerce/inventory"
\* The paths whose routes are children of a PrivateRoute.
ProtectedPaths == {ProductsPath, OrdersPath, InventoryPath}
NoState == ""

\* !!value
Truthy(value) == value.defined

\* react-cookie's setCookie and removeCookie, as cookies[authSessionKey] reads after them.
setCookie(jar, value) == value
\* A removal that leaves the cookie in place.
KeepCookie(jar) == jar
removeCookie(jar) == Undefined

getSession == IF ~Truthy(cookies) THEN Undefined ELSE cookies
isAuthenticated == Truthy(cookies)

Navigate(to, state) == [el |-> "Navigate", to |-> to, state |-> state]
Outlet == [el |-> "Outlet", to |-> "", state |-> NoState]
NoElement == [el |-> "", to |-> "", state |-> NoState]

\* roles.includes(user?.role)
includesRole(list, u) == u.defined /\ u.role \in list

\* A PrivateRoute that does not look at its roles prop.
RolesIgnored(rolesProp) ==
    IF ~isAuthenticated THEN Navigate(LoginPath, location) ELSE Outlet

PrivateRoute(rolesProp) ==
    IF ~isAuthenticated THEN Navigate(LoginPath, location)
    ELSE IF rolesProp.given /\ ~includesRole(rolesProp.list, user)
    THEN Navigate(ProductsPath, NoState)
    ELSE Outlet

\* What the router renders at the location: the PrivateRoute of a protected path.
Render == IF location \in ProtectedPaths THEN PrivateRoute(roles) ELSE NoElement

saveSession(u) ==
    /\ route = "auth"
    /\ cookies' = setCookie(cookies, u)
    /\ user' = u
    /\ UNCHANGED <<location, locationState, roles>>
    /\ element' = Render'
    /\ ev' = NoEvent
    /\ UNCHANGED <<route, offAuth, mutLeft>>

removeSession ==
    /\ route = "auth"
    /\ cookies' = removeCookie(cookies)
    /\ user' = Undefined
    /\ location' = LoginPath
    /\ locationState' = NoState
    /\ roles' = NoRoles
    /\ element' = Render'
    /\ ev' = Event("removeSession", 0, TRUE)
    /\ UNCHANGED <<route, offAuth, mutLeft>>

\* The user opens a protected page, whose route has the roles prop rolesProp.
openProtected(path, rolesProp) ==
    /\ route = "auth"
    /\ path \in ProtectedPaths
    /\ location' = path
    /\ locationState' = NoState
    /\ roles' = rolesProp
    /\ UNCHANGED <<cookies, user>>
    /\ element' = Render'
    /\ ev' = NoEvent
    /\ UNCHANGED <<route, offAuth, mutLeft>>

\* The <Navigate> that PrivateRoute returned takes effect; the route of its
\* target has the roles prop rolesProp.
followNavigate(rolesProp) ==
    /\ route = "auth"
    /\ element.el = "Navigate"
    /\ location' = element.to
    /\ locationState' = element.state
    /\ roles' = IF element.to \in ProtectedPaths THEN rolesProp ELSE NoRoles
    /\ UNCHANGED <<cookies, user>>
    /\ element' = Render'
    /\ ev' = NoEvent
    /\ UNCHANGED <<route, offAuth, mutLeft>>

AuthUnmounted ==
    /\ cookies = Undefined
    /\ user = Undefined
    /\ location = LoginPath
    /\ locationState = NoState
    /\ roles = NoRoles
    /\ element = NoElement

\* The provider mounts over the cookie an earlier session left, at any page.
AuthMounted ==
    /\ cookies \in {Undefined} \cup UserValues
    /\ user = getSession
    /\ location \in {LoginPath} \cup ProtectedPaths
    /\ locationState = NoState
    /\ roles \in IF location \in ProtectedPaths THEN RolesProps ELSE {NoRoles}
    /\ element = Render

NextAuth ==
    \/ \E u \in UserValues : saveSession(u)
    \/ removeSession
    \/ \E path \in ProtectedPaths, rolesProp \in RolesProps : openProtected(path, rolesProp)
    \/ \E rolesProp \in RolesProps : followNavigate(rolesProp)

\* ----------------------------------------------------------------------
\* Variation manager (src/src/pages/apps/Ecommerce/Variation.jsx)
\* ----------------------------------------------------------------------
\* A variant is one SKU with one attribute row, whose id is the SKU's number.
Variant(sku, productId, value) == [sku |-> sku, product_id |-> productId, value |-> value]
NoAttribute == Variant(0, 0, "")
AttributeValues == {"red", "blue"}
\* The variants the server starts with: one for each product.
InitVariants == {Variant(p, p, "red") : p \in ProdIds}

\* The value of a product's <option>, and String(product_id).
OptionValue(p) == NatToText(p)
NoProduct == <<>>

\* sel: the selectedProductId of the render whose handler issued the request.
VmReq(op, id, value, sel) ==
    [op |-> op, id |-> id, value |-> value, sel |-> sel, st |-> "sent", data |-> {}]
VmGetProductsReq == VmReq("PRODUCTS", 0, "", NoProduct)
\* GET /variations/<productId>
GetVariationsReq(productId) == VmReq("GET", IntOf(productId), "", NoProduct)

VmStored(r) ==
    CASE r.op = "POST" -> vmSrv \cup {Variant(vmSrvNext, r.id, r.value)}
      [] r.op = "PUT" -> {IF v.sku = r.id THEN [v EXCEPT !.value = r.value] ELSE v : v \in vmSrv}
      [] r.op = "DELETE" -> {v \in vmSrv : v.sku # r.id}
      [] OTHER -> vmSrv

VmServerAccept(r) ==
    /\ route = "variation"
    /\ r \in InFlight(vmNet)
    /\ r.st = "sent"
    /\ r.op \in {"PUT", "DELETE"} => \E v \in vmSrv : v.sku = r.id
    /\ vmSrv' = VmStored(r)
    /\ vmSrvNext' = IF r.op = "POST" THEN vmSrvNext + 1 ELSE vmSrvNext
    /\ vmNet' = Swap(vmNet, r,
                     [r EXCEPT !.st = "ok",
                               !.data = CASE r.op = "PRODUCTS" -> ProdIds
                                          [] r.op = "GET" -> {v \in vmSrv : v.product_id = r.id}
                                          [] OTHER -> {}])
    /\ ev' = NoEvent
    /\ UNCHANGED <<route, offVm, mutLeft, vmUi>>

VmServerRefuse(r) ==
    /\ route = "variation"
    /\ r \in InFlight(vmNet)
    /\ r.st = "sent"
    /\ vmNet' = Swap(vmNet, r, [r EXCEPT !.st = "fail"])
    /\ ev' = NoEvent
    /\ UNCHANGED <<route, offVm, mutLeft, vmSrv, vmSrvNext, vmUi>>

VmStatus(message, variant) == [message |-> message, variant |-> variant]

\* The rest of fetchProducts, once its GET is answered.
vmFetchProductsDone(r) ==
    /\ route = "variation"
    /\ r \in InFlight(vmNet)
    /\ r.op = "PRODUCTS"
    /\ r.st # "sent"
    /\ IF r.st = "ok"
       THEN vmProducts' = r.data /\ UNCHANGED vmSubmitStatus
       ELSE vmSubmitStatus' = VmStatus("Failed to fetch products", "danger") /\ UNCHANGED vmProducts
    /\ vmIsProductsLoading' = FALSE
    /\ vmNet' = Take(vmNet, r)
    /\ ev' = NoEvent
    /\ UNCHANGED <<route, offVm, mutLeft, vmSrv, vmSrvNext, selectedProductId, variants,
                   vmIsLoading, createModalShow, editModalShow, currentAttribute,
                   vmIsSubmitting, createProductId>>

\* fetchVariations(productId) up to its await; it also clears the banner when
\* productId is not empty, which the callers' own last write decides.
fetchVariations(productId, net) ==
    IF productId = NoProduct
    THEN /\ variants' = {}
         /\ vmNet' = net
         /\ UNCHANGED vmIsLoading
    ELSE /\ vmIsLoading' = TRUE
         /\ vmNet' = Send(net, GetVariationsReq(productId))
         /\ UNCHANGED variants

\* The rest of fetchVariations, once its GET is answered.
fetchVariationsDone(r) ==
    /\ route = "variation"
    /\ r \in InFlight(vmNet)
    /\ r.op = "GET"
    /\ r.st # "sent"
    /\ IF r.st = "ok"
       THEN variants' = r.data /\ UNCHANGED vmSubmitStatus
       ELSE /\ variants' = {}
            /\ vmSubmitStatus' = VmStatus("Failed to fetch variations", "danger")
    /\ vmIsLoading' = FALSE
    /\ vmNet' = Take(vmNet, r)
    /\ ev' = NoEvent
    /\ UNCHANGED <<route, offVm, mutLeft, vmSrv, vmSrvNext, vmProducts, selectedProductId,
                   vmIsProductsLoading, createModalShow, editModalShow, currentAttribute,
                   vmIsSubmitting, createProductId>>

VmModalOpen == createModalShow \/ editModalShow
ProductOptions == {NoProduct} \cup {OptionValue(p) : p \in vmProducts}

\* The product select's onChange, and the effect on [selectedProductId].
selectProduct(value) ==
    /\ route = "variation"
    /\ ~VmModalOpen
    /\ ~vmIsProductsLoading /\ ~vmIsLoading
    /\ value \in ProductOptions
    /\ value # selectedProductId
    /\ selectedProductId' = value
    /\ fetchVariations(value, vmNet)
    /\ vmSubmitStatus' = IF value = NoProduct THEN vmSubmitStatus ELSE NoStatus
    /\ ev' = NoEvent
    /\ UNCHANGED <<route, offVm, mutLeft, vmSrv, vmSrvNext, vmProducts, vmIsProductsLoading,
                   createModalShow, editModalShow, currentAttribute, vmIsSubmitting,
                   createProductId>>

\* The variants table is on screen.
VariantsTable ==
    IF vmIsLoading \/ selectedProductId = NoProduct THEN {} ELSE variants

openCreateModal ==
    /\ route = "variation"
    /\ ~VmModalOpen
    /\ selectedProductId # NoProduct
    /\ ~vmIsProductsLoading
    /\ createProductId' = selectedProductId
    /\ createModalShow' = TRUE
    /\ ev' = NoEvent
    /\ UNCHANGED <<route, offVm, mutLeft, vmSrv, vmSrvNext, vmProducts, selectedProductId,
                   variants, vmIsLoading, vmIsProductsLoading, vmSubmitStatus, editModalShow,
                   currentAttribute, vmIsSubmitting, vmNet>>

\* The create form's Parent Product select.
setCreateProduct(value) ==
    /\ route = "variation"
    /\ createModalShow
    /\ value \in ProductOptions
    /\ createProductId' = value
    /\ ev' = NoEvent
    /\ UNCHANGED <<route, offVm, mutLeft, vmSrv, vmSrvNext, vmProducts, selectedProductId,
                   variants, vmIsLoading, vmIsProductsLoading, vmSubmitStatus, createModalShow,
                   editModalShow, currentAttribute, vmIsSubmitting, vmNet>>

handleCreateModalClose ==
    /\ route = "variation"
    /\ createModalShow
    /\ createModalShow' = FALSE
    /\ vmSubmitStatus' = NoStatus
    /\ ev' = NoEvent
    /\ UNCHANGED <<route, offVm, mutLeft, vmSrv, vmSrvNext, vmProducts, selectedProductId,
                   variants, vmIsLoading, vmIsProductsLoading, editModalShow, currentAttribute,
                   vmIsSubmitting, createProductId, vmNet>>

\* handleCreateSubmit up to its await, for a form the create schema accepts.
handleCreateSubmit(value) ==
    /\ route = "variation"
    /\ createModalShow
    /\ ~vmIsSubmitting
    /\ createProductId # NoProduct
    /\ mutLeft > 0
    /\ mutLeft' = mutLeft - 1
    /\ vmIsSubmitting' = TRUE
    /\ vmSubmitStatus' = NoStatus
    /\ vmNet' = Send(vmNet, VmReq("POST", IntOf(createProductId), value, selectedProductId))
    /\ ev' = NoEvent
    /\ UNCHANGED <<route, offVm, vmSrv, vmSrvNext, vmProducts, selectedProductId, variants,
                   vmIsLoading, vmIsProductsLoading, createModalShow, editModalShow,
                   currentAttribute, createProductId>>

\* The rest of handleCreateSubmit: setSelectedProductId(String(data.product_id))
\* and the close of the modal, then the effect on [selectedProductId] if the
\* value has changed.
handleCreateSubmitDone(r) ==
    /\ route = "variation"
    /\ r \in InFlight(vmNet)
    /\ r.op = "POST"
    /\ r.st # "sent"
    /\ IF r.st = "ok"
       THEN /\ selectedProductId' = OptionValue(r.id)
            /\ createModalShow' = FALSE
            /\ vmSubmitStatus' = NoStatus
            /\ IF OptionValue(r.id) # selectedProductId
               THEN fetchVariations(OptionValue(r.id), Take(vmNet, r))
               ELSE vmNet' = Take(vmNet, r) /\ UNCHANGED <<variants, vmIsLoading>>
       ELSE /\ vmSubmitStatus' = VmStatus("Failed to create variant", "danger")
            /\ vmNet' = Take(vmNet, r)
            /\ UNCHANGED <<selectedProductId, createModalShow, variants, vmIsLoading>>
    /\ vmIsSubmitting' = FALSE
    /\ ev' = NoEvent
    /\ UNCHANGED <<route, offVm, mutLeft, vmSrv, vmSrvNext, vmProducts, vmIsProductsLoading,
                   editModalShow, currentAttribute, createProductId>>

vmOpenEditModal(attributeRow) ==
    /\ route = "variation"
    /\ ~VmModalOpen
    /\ attributeRow \in VariantsTable
    /\ currentAttribute' = attributeRow
    /\ editModalShow' = TRUE
    /\ ev' = NoEvent
    /\ UNCHANGED <<route, offVm, mutLeft, vmSrv, vmSrvNext, vmProducts, selectedProductId,
                   variants, vmIsLoading, vmIsProductsLoading, vmSubmitStatus, createModalShow,
                   vmIsSubmitting, createProductId, vmNet>>

handleEditModalClose ==
    /\ route = "variation"
    /\ editModalShow
    /\ editModalShow' = FALSE
    /\ vmSubmitStatus' = NoStatus
    /\ currentAttribute' = NoAttribute
    /\ ev' = NoEvent
    /\ UNCHANGED <<route, offVm, mutLeft, vmSrv, vmSrvNext, vmProducts, selectedProductId,
                   variants, vmIsLoading, vmIsProductsLoading, createModalShow, vmIsSubmitting,
                   createProductId, vmNet>>

\* handleEditSubmit up to its await. The form always holds price_modifier, so
\* the payload is never empty.
handleEditSubmit(value) ==
    /\ route = "variation"
    /\ editModalShow
    /\ ~vmIsSubmitting
    /\ mutLeft > 0
    /\ mutLeft' = mutLeft - 1
    /\ vmIsSubmitting' = TRUE
    /\ vmSubmitStatus' = NoStatus
    /\ vmNet' = Send(vmNet, VmReq("PUT", currentAttribute.sku, value, selectedProductId))
    /\ ev' = NoEvent
    /\ UNCHANGED <<route, offVm, vmSrv, vmSrvNext, vmProducts, selectedProductId, variants,
                   vmIsLoading, vmIsProductsLoading, createModalShow, editModalShow,
                   currentAttribute, createProductId>>

\* The rest of handleEditSubmit: fetchVariations(selectedProductId) with the
\* selectedProductId of the render of the submit, then handleEditModalClose.
handleEditSubmitDone(r) ==
    /\ route = "variation"
    /\ r \in InFlight(vmNet)
    /\ r.op = "PUT"
    /\ r.st # "sent"
    /\ IF r.st = "ok"
       THEN /\ fetchVariations(r.sel, Take(vmNet, r))
            /\ editModalShow' = FALSE
            /\ currentAttribute' = NoAttribute
            /\ vmSubmitStatus' = NoStatus
       ELSE /\ vmSubmitStatus' = VmStatus("Failed to update attribute", "danger")
            /\ vmNet' = Take(vmNet, r)
            /\ UNCHANGED <<variants, vmIsLoading, editModalShow, currentAttribute>>
    /\ vmIsSubmitting' = FALSE
    /\ ev' = NoEvent
    /\ UNCHANGED <<route, offVm, mutLeft, vmSrv, vmSrvNext, vmProducts, selectedProductId,
                   vmIsProductsLoading, createModalShow, createProductId>>

\* handleDeleteVariant up to its await; a declined prompt returns at once.
handleDeleteVariant(sku, confirmed) ==
    /\ route = "variation"
    /\ ~VmModalOpen
    /\ \E v \in VariantsTable : v.sku = sku
    /\ IF confirmed
       THEN /\ mutLeft > 0
            /\ mutLeft' = mutLeft - 1
            /\ vmSubmitStatus' = VmStatus("Deleting variant...", "info")
            /\ vmNet' = Send(vmNet, VmReq("DELETE", sku, "", selectedProductId))
       ELSE UNCHANGED <<mutLeft, vmSubmitStatus, vmNet>>
    /\ ev' = NoEvent
    /\ UNCHANGED <<route, offVm, vmSrv, vmSrvNext, vmProducts, selectedProductId, variants,
                   vmIsLoading, vmIsProductsLoading, createModalShow, editModalShow,
                   currentAttribute, vmIsSubmitting, createProductId>>

\* The rest of handleDeleteVariant: fetchVariations(selectedProductId) with the
\* selectedProductId of the render of the click.
handleDeleteVariantDone(r) ==
    /\ route = "variation"
    /\ r \in InFlight(vmNet)
    /\ r.op = "DELETE"
    /\ r.st # "sent"
    /\ IF r.st = "ok"
       THEN /\ fetchVariations(r.sel, Take(vmNet, r))
            /\ vmSubmitStatus' = IF r.sel = NoProduct
                                 THEN VmStatus("Variant deleted successfully.", "success")
                                 ELSE NoStatus
       ELSE /\ vmSubmitStatus' = VmStatus("Failed to delete variant", "danger")
            /\ vmNet' = Take(vmNet, r)
            /\ UNCHANGED <<variants, vmIsLoading>>
    /\ ev' = NoEvent
    /\ UNCHANGED <<route, offVm, mutLeft, vmSrv, vmSrvNext, vmProducts, selectedProductId,
                   vmIsProductsLoading, createModalShow, editModalShow, currentAttribute,
                   vmIsSubmitting, createProductId>>

VmUnmounted ==
    /\ vmSrv = {}
    /\ vmSrvNext = 1
    /\ vmProducts = {}
    /\ selectedProductId = NoProduct
    /\ variants = {}
    /\ vmIsLoading = FALSE
    /\ vmIsProductsLoading = FALSE
    /\ vmSubmitStatus = NoStatus
    /\ createModalShow = FALSE
    /\ editModalShow = FALSE
    /\ currentAttribute = NoAttribute
    /\ vmIsSubmitting = FALSE
    /\ createProductId = NoProduct
    /\ vmNet = EmptyBag

\* The component's state at mount, fetchProducts started and
\* fetchVariations('') run.
VmMounted ==
    /\ vmSrv = InitVariants
    /\ vmSrvNext = MaxProd + 1
    /\ vmProducts = {}
    /\ selectedProductId = NoProduct
    /\ variants = {}
    /\ vmIsLoading = FALSE
    /\ vmIsProductsLoading = TRUE
    /\ vmSubmitStatus = NoStatus
    /\ createModalShow = FALSE
    /\ editModalShow = FALSE
    /\ currentAttribute = NoAttribute
    /\ vmIsSubmitting = FALSE
    /\ createProductId = NoProduct
    /\ vmNet = SetToBag({VmGetProductsReq})

NextVm ==
    \/ \E r \in InFlight(vmNet) : VmServerAccept(r)
    \/ \E r \in InFlight(vmNet) : VmServerRefuse(r)
    \/ \E r \in InFlight(vmNet) : vmFetchProductsDone(r)
    \/ \E r \in InFlight(vmNet) : fetchVariationsDone(r)
    \/ \E value \in ProductOptions : selectProduct(value)
    \/ openCreateModal
    \/ \E value \in ProductOptions : setCreateProduct(value)
    \/ handleCreateModalClose
    \/ \E value \in AttributeValues : handleCreateSubmit(value)
    \/ \E r \in InFlight(vmNet) : handleCreateSubmitDone(r)
    \/ \E v \in VariantsTable : vmOpenEditModal(v)
    \/ handleEditModalClose
    \/ \E value \in AttributeValues : handleEditSubmit(value)
    \/ \E r \in InFlight(vmNet) : handleEditSubmitDone(r)
    \/ \E v \in VariantsTable, confirmed \in BOOLEAN : handleDeleteVariant(v.sku, confirmed)
    \/ \E r \in InFlight(vmNet) : handleDeleteVariantDone(r)

\* ----------------------------------------------------------------------
\* Banners (src/src/pages/apps/Ecommerce/bannerAdd.jsx)
\* ----------------------------------------------------------------------
\* A banner is its id; its title and description are fixed texts here.
BannerTitle == "t"
BannerDescription == "d"
EmptyForm == [title |-> "", description |-> "", image |-> FALSE]

\* after: the handler that awaits the fetch ("mount" for the effect).
BnReq(op, id, after) == [op |-> op, id |-> id, after |-> after, st |-> "sent", data |-> {}]
GetBannersReq(after) == BnReq("GET", 0, after)

BnServerAccept(r) ==
    /\ route = "banners"
    /\ r \in InFlight(bnNet)
    /\ r.st = "sent"
    /\ r.op \in {"PUT", "DELETE"} => r.id \in bnSrv
    /\ bnSrv' = CASE r.op = "POST" -> bnSrv \cup {bnSrvNext}
                  [] r.op = "DELETE" -> bnSrv \ {r.id}
                  [] OTHER -> bnSrv
    /\ bnSrvNext' = IF r.op = "POST" THEN bnSrvNext + 1 ELSE bnSrvNext
    /\ bnNet' = Swap(bnNet, r, [r EXCEPT !.st = "ok",
                                         !.data = IF r.op = "GET" THEN bnSrv ELSE {}])
    /\ ev' = NoEvent
    /\ UNCHANGED <<route, offBn, mutLeft, bnUi>>

BnServerRefuse(r) ==
    /\ route = "banners"
    /\ r \in InFlight(bnNet)
    /\ r.st = "sent"
    /\ bnNet' = Swap(bnNet, r, [r EXCEPT !.st = "fail"])
    /\ ev' = NoEvent
    /\ UNCHANGED <<route, offBn, mutLeft, bnSrv, bnSrvNext, bnUi>>

BnStatus(message, variant) == [message |-> message, variant |-> variant]

\* What resetForm sets.
resetForm ==
    /\ bnForm' = EmptyForm
    /\ bnPreviewImage' = "null"
    /\ bnIsEditing' = FALSE
    /\ currentBannerId' = 0
    /\ bnSubmitStatus' = NoStatus

\* The form's Clear button.
bnResetClicked ==
    /\ route = "banners"
    /\ ~showDeleteModal
    /\ ~bnIsSubmitting
    /\ resetForm
    /\ ev' = NoEvent
    /\ UNCHANGED <<route, offBn, mutLeft, bnSrv, bnSrvNext, banners, bnIsSubmitting,
                   showDeleteModal, bannerToDelete, bnNet>>

\* The title and description inputs.
bnSetText(field, value) ==
    /\ route = "banners"
    /\ ~showDeleteModal
    /\ bnForm' = [bnForm EXCEPT ![field] = value]
    /\ ev' = NoEvent
    /\ UNCHANGED <<route, offBn, mutLeft, bnSrv, bnSrvNext, banners, bnIsEditing,
                   currentBannerId, bnSubmitStatus, bnIsSubmitting, bnPreviewImage,
                   showDeleteModal, bannerToDelete, bnNet>>

\* The file input: a file is chosen or the choice is emptied. The form has no
\* imageUrl field, so an emptied choice always clears the preview.
bnHandleImageChange(file) ==
    /\ route = "banners"
    /\ ~showDeleteModal
    /\ bnForm' = [bnForm EXCEPT !.image = file]
    /\ bnPreviewImage' = IF file THEN "blob" ELSE "null"
    /\ ev' = NoEvent
    /\ UNCHANGED <<route, offBn, mutLeft, bnSrv, bnSrvNext, banners, bnIsEditing,
                   currentBannerId, bnSubmitStatus, bnIsSubmitting, showDeleteModal,
                   bannerToDelete, bnNet>>

handleEdit(banner) ==
    /\ route = "banners"
    /\ ~showDeleteModal
    /\ ~bnIsSubmitting
    /\ banner \in banners
    /\ bnForm' = [title |-> BannerTitle, description |-> BannerDescription, image |-> FALSE]
    /\ bnPreviewImage' = "image_url"
    /\ bnIsEditing' = TRUE
    /\ currentBannerId' = banner
    /\ bnSubmitStatus' = BnStatus("Editing banner...", "info")
    /\ ev' = NoEvent
    /\ UNCHANGED <<route, offBn, mutLeft, bnSrv, bnSrvNext, banners, bnIsSubmitting,
                   showDeleteModal, bannerToDelete, bnNet>>

\* The schema: title and description required, an image required unless an
\* edit shows a preview.
BnValid ==
    /\ bnForm.title # ""
    /\ bnForm.description # ""
    /\ (bnIsEditing /\ bnPreviewImage # "null") \/ bnForm.image

\* onSubmit up to its first await (updateBanner or addBanner).
bnOnSubmit ==
    /\ route = "banners"
    /\ ~showDeleteModal
    /\ ~bnIsSubmitting
    /\ BnValid
    /\ mutLeft > 0
    /\ mutLeft' = mutLeft - 1
    /\ bnIsSubmitting' = TRUE
    /\ bnSubmitStatus' = IF bnIsEditing /\ bnForm.image
                         THEN BnStatus("To update the image, please clear the form", "warning")
                         ELSE NoStatus
    /\ bnNet' = Send(bnNet, IF bnIsEditing THEN BnReq("PUT", currentBannerId, "")
                            ELSE BnReq("POST", 0, ""))
    /\ ev' = NoEvent
    /\ UNCHANGED <<route, offBn, bnSrv, bnSrvNext, banners, bnIsEditing, currentBannerId,
                   bnPreviewImage, showDeleteModal, bannerToDelete, bnForm>>

\* onSubmit from the answer to its save to its second await (fetchBanners), or
\* through catch and finally when the save failed.
bnSaveDone(r) ==
    /\ route = "banners"
    /\ r \in InFlight(bnNet)
    /\ r.op \in {"POST", "PUT"}
    /\ r.st # "sent"
    /\ IF r.st = "ok"
       THEN /\ bnSubmitStatus' = BnStatus("Banner saved successfully!", "success")
            /\ bnNet' = Send(Take(bnNet, r), GetBannersReq("save"))
            /\ UNCHANGED bnIsSubmitting
       ELSE /\ bnSubmitStatus' = BnStatus("Failed to save banner", "danger")
            /\ bnNet' = Take(bnNet, r)
            /\ bnIsSubmitting' = FALSE
    /\ ev' = NoEvent
    /\ UNCHANGED <<route, offBn, mutLeft, bnSrv, bnSrvNext, banners, bnIsEditing,
                   currentBannerId, bnPreviewImage, showDeleteModal, bannerToDelete, bnForm>>

handleShowDeleteModal(banner) ==
    /\ route = "banners"
    /\ ~showDeleteModal
    /\ ~bnIsSubmitting
    /\ banner \in banners
    /\ bannerToDelete' = banner
    /\ showDeleteModal' = TRUE
    /\ ev' = NoEvent
    /\ UNCHANGED <<route, offBn, mutLeft, bnSrv, bnSrvNext, banners, bnIsEditing,
                   currentBannerId, bnSubmitStatus, bnIsSubmitting, bnPreviewImage, bnForm,
                   bnNet>>

handleCloseDeleteModal ==
    /\ route = "banners"
    /\ showDeleteModal
    /\ bannerToDelete' = 0
    /\ showDeleteModal' = FALSE
    /\ ev' = NoEvent
    /\ UNCHANGED <<route, offBn, mutLeft, bnSrv, bnSrvNext, banners, bnIsEditing,
                   currentBannerId, bnSubmitStatus, bnIsSubmitting, bnPreviewImage, bnForm,
                   bnNet>>

\* handleDeleteConfirmed up to its first await (deleteBannerApi).
handleDeleteConfirmed ==
    /\ route = "banners"
    /\ showDeleteModal
    /\ ~bnIsSubmitting
    /\ bannerToDelete # 0
    /\ mutLeft > 0
    /\ mutLeft' = mutLeft - 1
    /\ bnIsSubmitting' = TRUE
    /\ bnSubmitStatus' = NoStatus
    /\ bnNet' = Send(bnNet, BnReq("DELETE", bannerToDelete, ""))
    /\ ev' = NoEvent
    /\ UNCHANGED <<route, offBn, bnSrv, bnSrvNext, banners, bnIsEditing, currentBannerId,
                   bnPreviewImage, showDeleteModal, bannerToDelete, bnForm>>

\* The finally block of handleDeleteConfirmed.
DeleteFinally ==
    /\ bnIsSubmitting' = FALSE
    /\ bannerToDelete' = 0
    /\ showDeleteModal' = FALSE
    /\ resetForm

\* handleDeleteConfirmed from the answer to its delete to its second await
\* (fetchBanners), or through catch and finally when the delete failed: the
\* message the catch sets is the one resetForm clears.
bnDeleteDone(r) ==
    /\ route = "banners"
    /\ r \in InFlight(bnNet)
    /\ r.op = "DELETE"
    /\ r.st # "sent"
    /\ IF r.st = "ok"
       THEN /\ bnSubmitStatus' = BnStatus("Banner deleted successfully!", "success")
            /\ bnNet' = Send(Take(bnNet, r), GetBannersReq("delete"))
            /\ UNCHANGED <<bnIsSubmitting, bannerToDelete, showDeleteModal, bnForm,
                           bnPreviewImage, bnIsEditing, currentBannerId>>
       ELSE /\ bnNet' = Take(bnNet, r)
            /\ DeleteFinally
    /\ ev' = NoEvent
    /\ UNCHANGED <<route, offBn, mutLeft, bnSrv, bnSrvNext, banners>>

\* The rest of fetchBanners, and of the handler that awaited it.
fetchBannersDone(r) ==
    /\ route = "banners"
    /\ r \in InFlight(bnNet)
    /\ r.op = "GET"
    /\ r.st # "sent"
    /\ banners' = IF r.st = "ok" THEN r.data ELSE banners
    /\ bnNet' = Take(bnNet, r)
    /\ CASE r.after = "save" ->
              /\ resetForm
              /\ bnIsSubmitting' = FALSE
              /\ UNCHANGED <<showDeleteModal, bannerToDelete>>
         [] r.after = "delete" -> DeleteFinally
         [] OTHER ->
              /\ bnSubmitStatus' = IF r.st = "ok" THEN bnSubmitStatus
                                   ELSE BnStatus("Error fetching banners from API.", "danger")
              /\ UNCHANGED <<bnIsSubmitting, showDeleteModal, bannerToDelete, bnForm,
                             bnPreviewImage, bnIsEditing, currentBannerId>>
    /\ ev' = NoEvent
    /\ UNCHANGED <<route, offBn, mutLeft, bnSrv, bnSrvNext>>

BnUnmounted ==
    /\ bnSrv = {}
    /\ bnSrvNext = 1
    /\ banners = {}
    /\ bnIsEditing = FALSE
    /\ currentBannerId = 0
    /\ bnSubmitStatus = NoStatus
    /\ bnIsSubmitting = FALSE
    /\ bnPreviewImage = "null"
    /\ showDeleteModal = FALSE
    /\ bannerToDelete = 0
    /\ bnForm = EmptyForm
    /\ bnNet = EmptyBag

\* The component's state at mount, its effect started, over a server with
\* no banner or one.
BnMounted ==
    /\ bnSrv \in {{}, {1}}
    /\ bnSrvNext = 2
    /\ banners = {}
    /\ bnIsEditing = FALSE
    /\ currentBannerId = 0
    /\ bnSubmitStatus = NoStatus
    /\ bnIsSubmitting = FALSE
    /\ bnPreviewImage = "null"
    /\ showDeleteModal = FALSE
    /\ bannerToDelete = 0
    /\ bnForm = EmptyForm
    /\ bnNet = SetToBag({GetBannersReq("mount")})

NextBn ==
    \/ \E r \in InFlight(bnNet) : BnServerAccept(r)
    \/ \E r \in InFlight(bnNet) : BnServerRefuse(r)
    \/ \E r \in InFlight(bnNet) : fetchBannersDone(r)
    \/ bnResetClicked
    \/ \E value \in {"", BannerTitle} : bnSetText("title", value)
    \/ \E value \in {"", BannerDescription} : bnSetText("description", value)
    \/ \E file \in BOOLEAN : bnHandleImageChange(file)
    \/ \E banner \in banners : handleEdit(banner)
    \/ bnOnSubmit
    \/ \E r \in InFlight(bnNet) : bnSaveDone(r)
    \/ \E banner \in banners : handleShowDeleteModal(banner)
    \/ handleCloseDeleteModal
    \/ handleDeleteConfirmed
    \/ \E r \in InFlight(bnNet) : bnDeleteDone(r)

\* The views modelled last, none of them mounted.
LaterUnmounted ==
    /\ AuthUnmounted
    /\ VmUnmounted
    /\ BnUnmounted

\* ----------------------------------------------------------------------
\* Specifications
\* ----------------------------------------------------------------------
FirstUnmounted ==
    /\ CatUnmounted
    /\ ProdUnmounted
    /\ OrdUnmounted
    /\ OdUnmounted
    /\ InvUnmounted
    /\ PeUnmounted

InitAuth ==
    /\ route = "auth"
    /\ ev = NoEvent
    /\ mutLeft = MaxMut
    /\ FirstUnmounted
    /\ AuthMounted
    /\ VmUnmounted
    /\ BnUnmounted

SpecAuth == InitAuth /\ [][NextAuth]_vars

InitVm ==
    /\ route = "variation"
    /\ ev = NoEvent
    /\ mutLeft = MaxMut
    /\ FirstUnmounted
    /\ AuthUnmounted
    /\ VmMounted
    /\ BnUnmounted

SpecVm == InitVm /\ [][NextVm]_vars

InitBn ==
    /\ route = "banners"
    /\ ev = NoEvent
    /\ mutLeft = MaxMut
    /\ FirstUnmounted
    /\ AuthUnmounted
    /\ VmUnmounted
    /\ BnMounted

SpecBn == InitBn /\ [][NextBn]_vars

InitCat ==
    /\ route = "category"
    /\ ev = NoEvent
    /\ mutLeft = MaxMut
    /\ CatMounted
    /\ ProdUnmounted
    /\ OrdUnmounted
    /\ OdUnmounted
    /\ InvUnmounted
    /\ PeUnmounted
    /\ LaterUnmounted

SpecCat == InitCat /\ [][NextCat]_vars

SpecCatOk == InitCat /\ [][NextCatOk]_vars

\* The three views that delete: any one of them mounted.
InitDel ==
    /\ ev = NoEvent
    /\ mutLeft = MaxMut
    /\ OdUnmounted
    /\ InvUnmounted
    /\ PeUnmounted
    /\ \/ route = "category" /\ CatMounted /\ ProdUnmounted /\ OrdUnmounted
       \/ route = "products" /\ CatUnmounted /\ ProdMounted /\ OrdUnmounted
       \/ route = "orders" /\ CatUnmounted /\ ProdUnmounted /\ OrdMounted
    /\ LaterUnmounted

NextDel == NextCat \/ NextProd \/ NextOrd

SpecDel == InitDel /\ [][NextDel]_vars

InitOrdEdit ==
    /\ route = "orders"
    /\ ev = NoEvent
    /\ mutLeft = MaxMut
    /\ CatUnmounted
    /\ ProdUnmounted
    /\ OrdMounted
    /\ OdUnmounted
    /\ InvUnmounted
    /\ PeUnmounted
    /\ LaterUnmounted

\* A timeout that is pending fires: the event loop runs its callback.
SpecOrdEdit == InitOrdEdit /\ [][NextOrdEdit]_vars /\ WF_vars(\E id \in OrdIds : autoCloseEdit(id))

InitProd ==
    /\ route = "products"
    /\ ev = NoEvent
    /\ mutLeft = MaxMut
    /\ CatUnmounted
    /\ ProdMounted
    /\ OrdUnmounted
    /\ OdUnmounted
    /\ InvUnmounted
    /\ PeUnmounted
    /\ LaterUnmounted

\* A timeout that is pending fires: the event loop runs its callback.
SpecProd == InitProd /\ [][NextProd]_vars /\ WF_vars(autoClose)

\* The product list with the bulk upload left closed, and two deletes allowed.
InitTwoDeletes ==
    /\ route = "products"
    /\ ev = NoEvent
    /\ mutLeft = TwoMut
    /\ CatUnmounted
    /\ ProdMounted
    /\ OrdUnmounted
    /\ OdUnmounted
    /\ InvUnmounted
    /\ PeUnmounted
    /\ LaterUnmounted

NextProdList ==
    \/ \E r \in InFlight(prodNet) : ProdServerAccept(r)
    \/ \E r \in InFlight(prodNet) : ProdServerRefuse(r)
    \/ \E r \in InFlight(prodNet) : fetchProductsDone(r)
    \/ \E productId \in ProdIds, confirmed \in BOOLEAN : deleteProduct(productId, confirmed)
    \/ \E r \in InFlight(prodNet) : deleteProductDone(r)
    \/ \E value \in SearchValues : searchProduct(value)
    \/ \E value \in SortValues : handleSortChange(value)
    \/ prodTryAgain

SpecTwoDeletes == InitTwoDeletes /\ [][NextProdList]_vars

InitOd ==
    /\ route = "orderDetails"
    /\ ev = NoEvent
    /\ mutLeft = MaxMut
    /\ CatUnmounted
    /\ ProdUnmounted
    /\ OrdUnmounted
    /\ OdMounted
    /\ InvUnmounted
    /\ PeUnmounted
    /\ LaterUnmounted

SpecOd == InitOd /\ [][NextOd]_vars

InitInv ==
    /\ route = "inventory"
    /\ ev = NoEvent
    /\ mutLeft = MaxMut
    /\ CatUnmounted
    /\ ProdUnmounted
    /\ OrdUnmounted
    /\ OdUnmounted
    /\ InvMounted
    /\ PeUnmounted
    /\ LaterUnmounted

SpecInv == InitInv /\ [][NextInv]_vars

\* The inventory view over two stored records, with two deletes allowed.
InitTwoRefetches ==
    /\ route = "inventory"
    /\ ev = NoEvent
    /\ mutLeft = TwoMut
    /\ CatUnmounted
    /\ ProdUnmounted
    /\ OrdUnmounted
    /\ OdUnmounted
    /\ InvMounted
    /\ invSrvNext = TwoMut + 1
    /\ PeUnmounted
    /\ LaterUnmounted

\* Two records fill less than a page: the pagination controls are not rendered.
NextInvOnePage ==
    \/ \E r \in InFlight(invNet) : InvServerAccept(r)
    \/ \E r \in InFlight(invNet) : InvServerRefuse(r)
    \/ \E r \in InFlight(invNet) : fetchInventoryGot(r)
    \/ \E r \in InFlight(invNet) : fetchLowStockGot(r)
    \/ openAddModal
    \/ \E row \in InventoryRows : openEditModal(row.item)
    \/ handleModalClose
    \/ \E quantity \in QuantityValues, reorder \in ReorderValues : onSubmit(quantity, reorder)
    \/ \E r \in InFlight(invNet) : onSubmitDone(r)
    \/ \E id \in InvIds : invHandleDelete(id)
    \/ \E r \in InFlight(invNet) : invDeleteDone(r)

SpecTwoRefetches == InitTwoRefetches /\ [][NextInvOnePage]_vars

InitPe ==
    /\ route = "productEdit"
    /\ ev = NoEvent
    /\ mutLeft = MaxMut
    /\ CatUnmounted
    /\ ProdUnmounted
    /\ OrdUnmounted
    /\ OdUnmounted
    /\ InvUnmounted
    /\ PeMounted
    /\ LaterUnmounted

SpecPe == InitPe /\ [][NextPe]_vars

\* The three views with a form that adds and edits: any one of them mounted.
InitForms ==
    /\ ev = NoEvent
    /\ mutLeft = MaxMut
    /\ ProdUnmounted
    /\ OrdUnmounted
    /\ OdUnmounted
    /\ \/ route = "productEdit" /\ PeMounted /\ InvUnmounted /\ CatUnmounted
       \/ route = "inventory" /\ PeUnmounted /\ InvMounted /\ CatUnmounted
       \/ route = "category" /\ PeUnmounted /\ InvUnmounted /\ CatMounted
    /\ LaterUnmounted

NextForms == NextPe \/ NextInv \/ NextCat

SpecForms == InitForms /\ [][NextForms]_vars

\* ----------------------------------------------------------------------
\* Properties of deleting (Products, Orders, Category)
\* ----------------------------------------------------------------------
\* In this step the view whose requests are net issues exactly one request: a
\* DELETE for the item of the click recorded in ev', not yet seen by the server.
OneDeleteFor(net, netAfter, ops, click) ==
    \E r \in InFlight(netAfter) :
        /\ netAfter = Send(net, r)
        /\ r.op \in ops
        /\ r.id = click.id
        /\ r.st = "sent"

\* C1: in the Products, Orders and Category views, a delete click the user
\* confirms issues exactly one DELETE request, for the clicked item's id, and
\* one the user declines issues no request and changes no view state; no
\* other step of these views issues a DELETE.
C1_ConfirmedDeleteIssuesOne ==
    [][/\ (ev'.t # "" /\ ev'.ok) =>
            CASE ev'.t = "category" ->
                    /\ OneDeleteFor(catNet, catNet', {"DELCAT", "DELSUB"}, ev')
                    /\ UNCHANGED <<prodNet, ordNet>>
              [] ev'.t = "products" ->
                    /\ OneDeleteFor(prodNet, prodNet', {"DELETE"}, ev')
                    /\ UNCHANGED <<catNet, ordNet>>
              [] ev'.t = "orders" ->
                    /\ OneDeleteFor(ordNet, ordNet', {"DELETE"}, ev')
                    /\ UNCHANGED <<catNet, prodNet>>
       /\ (ev'.t # "" /\ ~ev'.ok) =>
            UNCHANGED <<catUi, catNet, prodUi, prodNet, ordUi, ordNet>>
       /\ ev'.t = "" =>
            /\ \A r \in InFlight(catNet') :
                  r.op \in {"DELCAT", "DELSUB"} /\ r.st = "sent"
                      => CopiesIn(r, catNet') <= CopiesIn(r, catNet)
            /\ \A r \in InFlight(prodNet') :
                  r.op = "DELETE" /\ r.st = "sent"
                      => CopiesIn(r, prodNet') <= CopiesIn(r, prodNet)
            /\ \A r \in InFlight(ordNet') :
                  r.op = "DELETE" /\ r.st = "sent" /\ r.live
                      => CopiesIn(r, ordNet') <= CopiesIn(r, ordNet)
      ]_vars

\* C1 witness: the user has confirmed the deletion of the second product
\* card, and the one request in flight is the DELETE for that product.
C1_Witness ==
    /\ route = "products"
    /\ ev = Event("products", 2, TRUE)
    /\ Len(products) = 2
    /\ prodNet = SetToBag({ProdReq("DELETE", 2, products)})

\* ----------------------------------------------------------------------
\* Properties of the category hierarchy editor
\* ----------------------------------------------------------------------
\* The handler awaiting request r runs in this step: r leaves the requests in flight.
CatDelivered(r) == CopiesIn(r, catNet') = CopiesIn(r, catNet) - 1
\* Request r is issued in this step.
CatIssued(r) == CopiesIn(r, catNet') = CopiesIn(r, catNet) + 1

\* C2: once every request has completed, all of them successfully, the
\* displayed hierarchy equals the server's hierarchy, whatever the order in
\* which the answers arrived (checked against a server that refuses nothing).
C2_DisplayedEqualsServer ==
    (route = "category" /\ catNet = EmptyBag) => hierarchy = catSrv

\* C3: the handler of every successful add, edit or delete issues exactly one
\* GET of the full hierarchy, and the hierarchy state changes only in the step
\* that receives the answer of such a GET, to what that answer carries.
C3_MutationsRefetch ==
    [][/\ \A r \in InFlight(catNet) :
            (r.op \in CatMutations /\ r.st = "ok" /\ CatDelivered(r))
                => /\ GetCount(catNet') = GetCount(catNet) + 1
                   /\ CatIssued(GetHierarchyReq)
                   /\ hierarchy' = hierarchy
       /\ hierarchy' # hierarchy
            => \E g \in InFlight(catNet) :
                  /\ g.op = "GET" /\ g.st \in {"ok", "nodata"} /\ CatDelivered(g)
                  /\ hierarchy' = IF g.st = "ok" THEN g.snap ELSE EmptyHierarchy
      ]_vars

\* C3 witness: a mutation has been accepted and its handler has issued the
\* re-fetch, which is the only request in flight.
C3_Witness ==
    /\ route = "category"
    /\ mutLeft = MaxMut - 1
    /\ catNet = SetToBag({GetHierarchyReq})
    /\ \E n \in NodeIds : catSrv[n].name = "b"

\* C4: the POST an Add-L2 or Add-L3 submission issues carries as parent_id
\* the id of the node whose add button was clicked last.
C4_AddTargetsClickedNode ==
    [][\A r \in InFlight(catNet') :
          (r.op = "ADDSUB" /\ r.st = "sent" /\ CatIssued(r)) => r.id = lastAddClicked
      ]_vars

\* C4 witness: an add under the clicked node is in flight after other modals
\* touched another node (the category edit modal, and an earlier add modal
\* under a different parent would have left currentParent elsewhere).
C4_Witness ==
    /\ route = "category"
    /\ \E r \in InFlight(catNet) :
          /\ r.op = "ADDSUB" /\ r.id = lastAddClicked
          /\ currentCategory # 0 /\ currentCategory # r.id

\* C5: every rendered row's level is the node's depth from its L1 root (roots
\* at 1, a child one below its parent), and its indentation and action set
\* are those of that depth.
C5_LevelIsDepth ==
    route = "category" =>
        \A row \in RenderedRows :
            /\ row.level = Depth(hierarchy, row.id)
            /\ row.indent = 10 + (Depth(hierarchy, row.id) * 30)
            /\ hierarchy[row.id].parent = 0 => row.level = 1
            /\ hierarchy[row.id].parent > 0 =>
                  \E p \in RenderedRows : p.id = hierarchy[row.id].parent /\ row.level = p.level + 1
            /\ ("addL2" \in row.actions) = (Depth(hierarchy, row.id) = 1)
            /\ ("addL3" \in row.actions) = (Depth(hierarchy, row.id) = 2)

\* C5 witness: a three-level hierarchy is on screen.
C5_Witness ==
    /\ route = "category"
    /\ \E row \in RenderedRows : row.level = 3
    /\ \E row \in RenderedRows : row.level = 2
    /\ Cardinality(RenderedRows) = 3

\* C6: when the answer to an add or edit submission is a failure, the handler
\* sets a danger banner, leaves every modal as it is (an open one stays open)
\* and issues no re-fetch.
C6_FailedSubmitKeepsModal ==
    [][\A r \in InFlight(catNet) :
          (r.op \in {"ADDCAT", "EDITCAT", "ADDSUB", "EDITSUB"} /\ r.st = "fail" /\ CatDelivered(r))
              => /\ catSubmitStatus'.variant = "danger"
                 /\ catSubmitStatus'.message # ""
                 /\ UNCHANGED <<categoryModalShow, subcategoryModalShow, productGroupModalShow>>
                 /\ GetCount(catNet') = GetCount(catNet)
                 /\ catNet' = Take(catNet, r)
      ]_vars

\* C6 witness: a submission failed while its modal was open: the banner
\* reports it and the modal is still open.
C6_Witness ==
    /\ route = "category"
    /\ catSubmitStatus.variant = "danger"
    /\ catSubmitStatus.message \in {"Failed to add", "Failed to update",
                                    "Failed to add category", "Failed to update category"}
    /\ AnyCatModal
    /\ ~catIsSubmitting

\* ----------------------------------------------------------------------
\* Properties of OrderDetails
\* ----------------------------------------------------------------------
Terminal == {"Completed", "Cancelled"}

\* C7: whenever the displayed order's status is Completed or Cancelled,
\* neither "Cancel Order" nor "Mark as Completed" is offered, and no PUT of
\* handleCancelOrder or handleMarkCompleted was issued from such a status.
C7_TerminalOffersNoAction ==
    route = "orderDetails" =>
        /\ (OrderShown /\ order \in Terminal) => OfferedActions = {}
        /\ \A r \in InFlight(odNet) :
              r.by \in {"handleCancelOrder", "handleMarkCompleted"} => r.from \notin Terminal

\* The colour the badge of an order status is to have.
StatusColour(status) ==
    CASE status \in {"Completed", "Delivered"} -> "bg-success"
      [] status = "Cancelled" -> "bg-danger"
      [] status = "Shipped" -> "bg-info"
      [] status = "Processing" -> "bg-warning"
      [] status = "Pending" -> "bg-secondary"
      [] OTHER -> "bg-light text-dark"

\* C11: wherever an order status badge is rendered (the Status column of the
\* orders table, the header of OrderDetails), its colour is that of the
\* status alone: Completed and Delivered success, Cancelled danger, Shipped
\* info, Processing warning, Pending secondary, anything else light/dark.
C11_BadgeColourOfStatus ==
    /\ route = "orders" =>
          \A id \in OrderRows :
              getStatusClass(filteredOrders[id]) = StatusColour(filteredOrders[id])
    /\ (route = "orderDetails" /\ OrderShown) => HeaderBadge = StatusColour(order)

\* ----------------------------------------------------------------------
\* Properties of Inventory
\* ----------------------------------------------------------------------
\* C8: currentPage stays between 1 and the last page (totalPages), whatever
\* the page navigations, deletes, submits and re-fetches.
C8_CurrentPageWithinPages ==
    route = "inventory" => (1 <= currentPage /\ currentPage <= totalPages)

\* C9: whenever no inventory fetch is in flight, totalPages is
\* ceil(records held in state / 10), an empty list and a failed fetch included.
C9_TotalPagesIsCeil ==
    (route = "inventory" /\ InvFetches(invNet) = {})
        => totalPages = (Len(inventory) + 9) \div 10

\* C10: every record rendered in the table shows LOW if and only if its
\* quantity_in_stock is below its reorder_point; stock equal to the reorder
\* point shows OK.
C10_LowBadgeIffBelowReorder ==
    route = "inventory" =>
        \A row \in InventoryRows :
            /\ (row.badge = "LOW") = (row.item.quantity_in_stock < row.item.reorder_point)
            /\ row.badge \in {"LOW", "OK"}
            /\ row.item.quantity_in_stock = row.item.reorder_point => row.badge = "OK"

\* C10 witness: the table shows a record with stock at its reorder point
\* (OK), one below it (LOW) and one above it (OK).
C10_Witness ==
    /\ route = "inventory"
    /\ \E row \in InventoryRows :
          row.item.quantity_in_stock = row.item.reorder_point /\ row.badge = "OK"
    /\ \E row \in InventoryRows :
          row.item.quantity_in_stock < row.item.reorder_point /\ row.badge = "LOW"
    /\ \E row \in InventoryRows :
          row.item.quantity_in_stock > row.item.reorder_point /\ row.badge = "OK"

\* ----------------------------------------------------------------------
\* Properties of ProductEdit and of the other forms
\* ----------------------------------------------------------------------
CreateFields == {"name", "description", "long_description", "price", "stock_quantity",
                 "category_id", "image"}

\* C12: the multipart body of every POST /products/create (a create
\* submission that passed validation, so with its image attached) has the
\* fields name, description, long_description, price, stock_quantity,
\* category_id and image.
C12_CreateBodyHasAllFields ==
    route = "productEdit" =>
        \A r \in Submits(peNet) :
            r.op = "POST" => (CreateFields \subseteq DOMAIN r.body /\ r.body["image"] # <<>>)

C12_Witness ==
    /\ route = "productEdit"
    /\ \E r \in Submits(peNet) :
          /\ r.op = "POST"
          /\ r.st = "sent"
          /\ \A k \in CreateFields \ {"price", "stock_quantity"} : r.body[k] = formValues[k]
          /\ "image" \notin FieldErrors(formValues)

\* C13: a submission of ProductEdit is PUT /products/edit/:id exactly when
\* the route has a productId and POST /products/create when it has none; the
\* Inventory form and the level-1 Category form likewise send an edit by id
\* when the record being edited is set, and an add otherwise.
C13_MethodFollowsEditId ==
    [][/\ route = "productEdit" =>
            \A r \in Issued(peNet, peNet') :
                r.op \in {"PUT", "POST"} =>
                    IF peProductId # 0 THEN r.op = "PUT" /\ r.id = peProductId
                    ELSE r.op = "POST" /\ r.id = 0
       /\ route = "inventory" =>
            \A r \in Issued(invNet, invNet') :
                r.op \in {"PUT", "POST"} =>
                    IF currentInventory # 0 THEN r.op = "PUT" /\ r.id = currentInventory
                    ELSE r.op = "POST" /\ r.id = 0
       /\ route = "category" =>
            \A r \in Issued(catNet, catNet') :
                r.op \in {"ADDCAT", "EDITCAT"} =>
                    IF currentCategory # 0 THEN r.op = "EDITCAT" /\ r.id = currentCategory
                    ELSE r.op = "ADDCAT" /\ r.id = 0]_vars

C13_Witness ==
    /\ route = "productEdit"
    /\ peProductId # 0
    /\ ev = Event("productEdit", peProductId, TRUE)
    /\ \E r \in Submits(peNet) : r.op = "PUT" /\ r.id = peProductId /\ r.st = "sent"

\* The validation rules of the product form, one by one.
ViolatesARule(values) ==
    \/ values.name = <<>>
    \/ values.description = <<>>
    \/ values.long_description = <<>>
    \/ ToNumber(values.price).nan
    \/ ToNumber(values.price).v < 1
    \/ ToNumber(values.stock_quantity).nan
    \/ ToNumber(values.stock_quantity).v < 0
    \/ ToNumber(values.stock_quantity).v % 100 # 0
    \/ values.category_id = <<>>
    \/ ~peIsEditing /\ values.image = <<>>

\* C14: a click on ProductEdit's submit button while the form's values break
\* a validation rule (empty name, description or long description, price
\* below 0.01, negative or fractional stock, no category, no image when
\* creating) puts no request in flight and leaves isSubmitting false.
C14_InvalidSubmitIssuesNothing ==
    [][(ev'.t = "productEdit" /\ ViolatesARule(formValues))
          => (peNet' = peNet /\ ~peIsSubmitting' /\ mutLeft' = mutLeft)]_vars

C14_Witness ==
    /\ route = "productEdit"
    /\ ev = Event("productEdit", peProductId, FALSE)
    /\ ViolatesARule(formValues)
    /\ formValues.name # <<>>
    /\ ~peIsSubmitting
    /\ Submits(peNet) = {}

\* The answered submission a step hands to the rest of onSubmit.
Delivered(r) == r \in Submits(peNet) /\ r.st # "sent" /\ peNet' = Take(peNet, r)

\* C15: when a submission of ProductEdit succeeds, a success banner is set;
\* the create form is reset to its default values and its image preview
\* cleared, and the edit form keeps the values it held.
C15_SuccessResetsCreateOnly ==
    [][\A r \in Submits(peNet) :
          (Delivered(r) /\ r.st = "ok") =>
              /\ peSubmitStatus'.variant = "success"
              /\ peSubmitStatus'.message # <<>>
              /\ IF peIsEditing
                 THEN formValues' = formValues
                 ELSE formValues' = defaultValues /\ previewImage' = NoPreview]_vars

C15_Witness ==
    /\ route = "productEdit"
    /\ ~peIsEditing
    /\ peSubmitStatus.variant = "success"
    /\ ~peSrv.written.nan
    /\ formValues = defaultValues
    /\ previewImage = NoPreview

\* The banner shows the text.
Carries(banner, text) == \E i \in 1..Len(banner.message) : banner.message[i] = text

\* C16 as stated: when a submission of ProductEdit fails, by a response that
\* is not 2xx or by a request that throws, a danger banner with the server's
\* error text is set, the form keeps its values, isSubmitting is false again
\* and the form stays on screen.
C16_FailureShowsServerText ==
    [][\A r \in Submits(peNet) :
          (Delivered(r) /\ r.st # "ok") =>
              /\ peSubmitStatus'.variant = "danger"
              /\ r.resp.text # "" /\ Carries(peSubmitStatus', r.resp.text)
              /\ formValues' = formValues
              /\ ~peIsSubmitting'
              /\ FormRendered']_vars

\* C16, amended: the banner carries the server's text when the server
\* answered, and the message of the thrown error when the request threw.
C16_FailureShowsErrorMessage ==
    [][\A r \in Submits(peNet) :
          (Delivered(r) /\ r.st # "ok") =>
              /\ peSubmitStatus'.variant = "danger"
              /\ IF r.st = "fail"
                 THEN r.resp.text # "" /\ Carries(peSubmitStatus', r.resp.text)
                 ELSE Carries(peSubmitStatus', "Failed to fetch")
              /\ formValues' = formValues
              /\ ~peIsSubmitting'
              /\ FormRendered']_vars

C16_Witness ==
    /\ route = "productEdit"
    /\ peSubmitStatus.variant = "danger"
    /\ Carries(peSubmitStatus, "Endpoint Not Found.")
    /\ \neg ViolatesARule(formValues)
    /\ ~peIsSubmitting
    /\ FormRendered
    /\ mutLeft = 0

\* C20: once a product's price p has been submitted and stored, fetching the
\* product again fills the price input with p: p is sent as String(p), not
\* reformatted, and read back by parseFloat.
C20_PriceRoundTrip ==
    [][\A r \in InFlight(peNet) :
          (/\ r.op = "GETPRODUCT"
           /\ r.st = "ok"
           /\ peNet' = Take(peNet, r)
           /\ ~peSrv.written.nan
           /\ r.resp.product = peSrv.product) =>
              /\ peSrv.product.base_price = NumberToString(peSrv.written)
              /\ formValues'.price = NumberToString(peSrv.written)
              /\ yupNumber(formValues'.price) = peSrv.written]_vars

C20_Witness ==
    /\ route = "productEdit"
    /\ peIsEditing
    /\ FormRendered
    /\ productData = peSrv.product
    /\ peSrv.written = Num(1250)
    /\ yupNumber(formValues.price) = peSrv.written

\* ----------------------------------------------------------------------
\* Properties of Products
\* ----------------------------------------------------------------------
\* The list without p, the others in their order.
Without(list, p) == filter(list, [q \in ProdIds |-> q # p])

\* C17: when a confirmed delete of product p has succeeded, the array of all
\* products and the array of the visible ones each become what they were
\* less p, and no GET /products is sent, whatever search or sort was active.
C17_DeleteRemovesOnlyP ==
    [][\A r \in InFlight(prodNet) :
          (r.op = "DELETE" /\ r.st = "ok" /\ prodNet' = Take(prodNet, r)) =>
              /\ allProducts' = Without(allProducts, r.id)
              /\ products' = Without(products, r.id)
              /\ Issued(prodNet, prodNet') = {}]_vars

\* C19: when the answer to a bulk upload is 2xx, all rows created or only
\* some, the product list is fetched once again and an auto-close is
\* scheduled, which in the end closes the modal; when the answer is not 2xx
\* or the request throws, nothing is fetched and no auto-close is scheduled.
C19_UploadRefetchesAndCloses ==
    /\ [][\A r \in InFlight(prodNet) :
             (r.op = "UPLOAD" /\ r.st # "sent" /\ CopiesIn(r, prodNet') < CopiesIn(r, prodNet)) =>
                 IF r.st \in {"ok", "partial"}
                 THEN /\ Issued(prodNet, prodNet') = {GetProductsReq}
                      /\ CopiesIn(GetProductsReq, prodNet') = CopiesIn(GetProductsReq, prodNet) + 1
                      /\ closeTimers' = closeTimers + 1
                 ELSE /\ Issued(prodNet, prodNet') = {}
                      /\ closeTimers' = closeTimers]_vars
    /\ (closeTimers > 0) ~> ~showModal

C19_Witness ==
    /\ route = "products"
    /\ uploadResult = "partial"
    /\ PageShown
    /\ allProducts # <<>>
    /\ ~showModal
    /\ closeTimers = 0
    /\ prodNet = EmptyBag

\* ----------------------------------------------------------------------
\* Properties of the list views
\* ----------------------------------------------------------------------
\* C18: in Orders, Inventory and the Category hierarchy, when the fetch of
\* the collection fails, the collection fetched before stays as it was in
\* the view's state and an error banner is set (in Orders, with Retry at
\* hand: the view is not left loading).
C18_FailedRefreshKeepsCollection ==
    [][/\ route = "orders" =>
            \A r \in InFlight(ordNet) :
                (r.op = "GET" /\ r.st = "fail" /\ ordNet' = Take(ordNet, r)) =>
                    /\ orderList' = orderList
                    /\ filteredOrders' = filteredOrders
                    /\ ordError'
                    /\ ~ordLoading'
       /\ route = "inventory" =>
            \A r \in InFlight(invNet) :
                (r.op = "GET" /\ r.st = "fail" /\ invNet' = Take(invNet, r)) =>
                    /\ inventory' = inventory
                    /\ invSubmitStatus' = "danger"
       /\ route = "category" =>
            \A r \in InFlight(catNet) :
                (r.op = "GET" /\ r.st = "fail" /\ catNet' = Take(catNet, r)) =>
                    /\ hierarchy' = hierarchy
                    /\ catSubmitStatus'.variant = "danger"]_vars

\* ----------------------------------------------------------------------
\* Properties of overlapping requests
\* ----------------------------------------------------------------------
\* C24: once the deletes of two distinct products have both succeeded and
\* nothing is in flight, neither product is in the visible array or in the
\* array of all products, however the two requests overlapped.
C24_DeletedProductsAreGone ==
    (route = "products" /\ prodNet = EmptyBag /\ mutLeft = 0 /\ prodSrv = {}) =>
        (allProducts = <<>> /\ products = <<>>)

\* C25: while the search term is not empty, every visible product has a name
\* that contains it, case apart, after any searches, sort changes, deletes
\* and re-fetches.
C25_VisibleMatchSearch ==
    (route = "products" /\ searchTerm # <<>>) =>
        \A p \in Elements(products) : MatchesSearch(searchTerm)[p]

\* C26: isLoading is true in every state in which a GET /inventory issued by
\* fetchInventoryData is in flight, two outstanding re-fetches included.
C26_LoadingWhileFetching ==
    (route = "inventory" /\ \E r \in InFlight(invNet) : r = GetInventoryReq) => invIsLoading

\* ----------------------------------------------------------------------
\* Properties of the category editor's L2/L3 modal
\* ----------------------------------------------------------------------
\* C29: whenever the L2 or the L3 modal is open, exactly one of
\* currentSubcategory (the edit target) and currentParent (the add parent) is
\* set; so no submission takes the 'Invalid state for submission.' branch,
\* and isSubmitting is true only while a submission's request is unanswered
\* or its answer is not yet handled: it returns to false with the answer.
C29_ExactlyOneTargetWhileOpen ==
    route = "category" =>
        /\ (subcategoryModalShow \/ productGroupModalShow) =>
               ((currentSubcategory # 0) # (currentParent # NoParent))
        /\ catSubmitStatus.message # "Invalid state for submission."
        /\ catIsSubmitting =>
               \E r \in InFlight(catNet) : r.op \in {"ADDCAT", "EDITCAT", "ADDSUB", "EDITSUB"}

\* A failed add under a parent: the modal is still open, isSubmitting is back to false.
C29_Witness ==
    /\ route = "category"
    /\ subcategoryModalShow \/ productGroupModalShow
    /\ currentParent # NoParent
    /\ catSubmitStatus.message = "Failed to add"
    /\ ~catIsSubmitting

\* ----------------------------------------------------------------------
\* Properties of the orders list's edit modal
\* ----------------------------------------------------------------------
\* C28: the auto-close scheduled after a successful update closes only the
\* modal the update was submitted in: when its timeout fires while the modal
\* is open for another order, the modal and its selected order are untouched.
C28_TimerClosesOnlyItsModal ==
    [][\A id \in OrdIds :
          (/\ route = "orders"
           /\ ordNet' = ordNet
           /\ CopiesIn(id, editTimers') < CopiesIn(id, editTimers)
           /\ showEditModal
           /\ selectedOrder.id # id)
          => (showEditModal' /\ selectedOrder' = selectedOrder)]_vars

\* ----------------------------------------------------------------------
\* Properties of the session store and of PrivateRoute
\* ----------------------------------------------------------------------
\* The role list lets the user in: none is given, or the user's role is in it.
RoleAllowed == ~roles.given \/ (user.defined /\ user.role \in roles.list)

\* C21: under a PrivateRoute the child routes are rendered only when
\* isAuthenticated is true and the roles list, if given, has the user's role;
\* an unauthenticated visitor is redirected to /auth/login with the attempted
\* location, an authenticated user whose role is outside the list to
\* /apps/ecommerce/products.
C21_PrivateRouteGuards ==
    (route = "auth" /\ location \in ProtectedPaths) =>
        /\ element.el = "Outlet" <=> (Truthy(cookies) /\ RoleAllowed)
        /\ ~Truthy(cookies) =>
               element = [el |-> "Navigate", to |-> "/auth/login", state |-> location]
        /\ (Truthy(cookies) /\ ~RoleAllowed) =>
               (element.el = "Navigate" /\ element.to = "/apps/ecommerce/products")

\* A visitor without a session has been sent from the orders page to the
\* login page, which is told where they came from.
C21_Witness ==
    /\ route = "auth"
    /\ ~Truthy(cookies)
    /\ location = LoginPath
    /\ locationState = OrdersPath

\* C30: after any saveSession and removeSession calls isAuthenticated is true
\* exactly when the user the provider exposes is defined; after removeSession
\* both are cleared and the location is /auth/login.
C30_AuthenticatedIffUser ==
    route = "auth" =>
        /\ isAuthenticated <=> user.defined
        /\ ev = Event("removeSession", 0, TRUE) =>
               (~isAuthenticated /\ ~user.defined /\ location = "/auth/login")

\* A session removed: the user is sent to the login page.
C30_Witness ==
    /\ route = "auth"
    /\ ev = Event("removeSession", 0, TRUE)
    /\ cookies = Undefined
    /\ location = LoginPath
    /\ element = NoElement

\* ----------------------------------------------------------------------
\* Properties of the variation manager
\* ----------------------------------------------------------------------
\* C22: the handling of every successful variant creation issues a fetch of
\* the variations of the product the variant was created for, also when that
\* product is the one already selected.
C22_CreateRefetches ==
    [][\A r \in InFlight(vmNet) :
          (/\ route = "variation"
           /\ r.op = "POST"
           /\ r.st = "ok"
           /\ CopiesIn(r, vmNet') < CopiesIn(r, vmNet))
          => \E q \in Issued(vmNet, vmNet') : q.op = "GET" /\ q.id = r.id]_vars

\* C27: whenever no request is in flight, the variants in state are those of
\* the selected product, and there are none when no product is selected,
\* however a selection interleaves with an edit or a delete.
C27_VariantsOfSelected ==
    (route = "variation" /\ vmNet = EmptyBag) =>
        \A v \in variants :
            selectedProductId # NoProduct /\ OptionValue(v.product_id) = selectedProductId

\* ----------------------------------------------------------------------
\* Properties of the banner view
\* ----------------------------------------------------------------------
\* C23: when a banner's delete or save fails, the handler leaves a message
\* with variant danger in the status banner, and issues no request again.
C23_FailureLeavesDangerBanner ==
    [][\A r \in InFlight(bnNet) :
          (/\ route = "banners"
           /\ r.op \in {"POST", "PUT", "DELETE"}
           /\ r.st = "fail"
           /\ CopiesIn(r, bnNet') < CopiesIn(r, bnNet))
          => (/\ bnSubmitStatus'.variant = "danger"
              /\ bnSubmitStatus'.message # ""
              /\ Issued(bnNet, bnNet') = {})]_vars

====
